---- MODULE Spec2Model ----
(***************************************************************************)
(* yt-mixer: the chunk production pipeline of AudioWorker                  *)
(* (src/src/yt_mixer/audio_engine.py) and the streaming routes that        *)
(* promote and advance chunks (src/src/yt_mixer/routes.py).                *)
(*                                                                         *)
(* Threads of one worker: the background loop (bg), one detached upgrade   *)
(* task per prepared chunk (up), the two collector threads of a chunk      *)
(* preparation, and the HTTP handlers.  A `with self.lock:` block that     *)
(* calls nothing blocking is one atomic step guarded by the lock being     *)
(* free; the lock variable records a holder only where a thread keeps the  *)
(* lock across steps.                                                      *)
(*                                                                         *)
(* mix_progress is written under the lock and read by the status routes    *)
(* only; it is not a variable here, but every _update_progress call is a   *)
(* lock acquisition and appears as the guard lock[w] = NoThread.           *)
(***************************************************************************)
EXTENDS Integers, Sequences, FiniteSets, TLC

\* ------------------------------------------------------------------ bounds
\* Highest chunk index the background loop prepares in the model.
MaxChunk == 3
\* Most entries the model lets error_log reach (failures are cut off there).
MaxErrors == 1
\* Most video ids a queue holds in the model (refills are cut off there).
MaxQueue == 3
\* Most items one call of _collect_tracks_for_chunk pops in the model.
MaxPops == 3
\* Most AudioWorker objects the session manager creates in the model.
MaxWorkers == 3
\* Most _log_error calls of one worker in the model of the error log.
MaxLogged == 12
\* The upgrade tasks that run beside a stop() call in the model: those of
\* chunks 1..MaxTracked.
MaxTracked == 1
\* The ports find_free_port tries in the model (max_attempts).
MaxAttempts == 2

\* ------------------------------------------------------- program constants
\* audio_engine.py:421  should_prepare = len(self.preloaded_chunks) < 2
LookaheadDepth == 2
\* audio_engine.py:529  if lufs_count >= 2
LufsCap == 2
\* audio_engine.py:71   self.error_log = self.error_log[-10:]
ErrorLogKeep == 10
\* audio_engine.py:39   self.target_chunk_duration = 3600
TargetChunkDuration == 3600
\* audio_engine.py:139  if len(queue) < 10
LowWater == 10
\* audio_engine.py:172  if duration > 5
MinDuration == 5

Workers == {"A", "B"}
\* Chunk indices: next_idx counts from 1 (line 423).
Chunks == 1..MaxChunk
\* The two track queues of a worker and their collector threads.
QueueTypes == {"music", "speech"}
\* What get_video_ids may return for a refill: nothing (an empty playlist)
\* or the ids of the playlist.
RefillResults == {<<>>, <<1, 2>>}
\* What _get_audio_duration may report for a downloaded track, in seconds:
\* 0 when the probe failed (line 133), the 5-second limit, one and two thirds
\* of the target, above 90% of it.
Durations == {0, 5, 1200, 2400, 3300}
None == <<>>
NoThread == "free"

VARIABLES
    \* AudioWorker fields (audio_engine.py:33-49), one value per worker
    preloaded_chunks, chunk_index, current_chunk_path, current_chunk_quality,
    lufs_in_progress, error_log, lock,
    \* process-wide: the files on disk and the final-mix gate
    files, LUFS_LOCK,
    \* threads: background loop position and its local next_idx, upgrade tasks
    bg, next_idx, up,
    \* log.warning capacity skips (audio_engine.py:530)
    warnings,
    \* music_queue / speech_queue (audio_engine.py:33-34) of the active worker
    queue,
    \* the collector threads of one prepare_chunk call: position and the
    \* locals video_id, collected_tracks, total_duration of
    \* _collect_tracks_for_chunk
    cpc, video_id, collected_tracks, total_duration,
    \* history: the ids popped by the call so far, and the queue as it was
    \* just before the last pop
    popped, qsnap,
    \* SessionManager (session_manager.py:57-62): the active (sid, worker)
    \* pair and the metadata of known sessions
    active_session, session_metadata,
    \* the AudioWorker objects created so far and the running flag of each
    \* (audio_engine.py:24)
    created, running,
    \* the session ids whose CHUNK_DIR / sid and AUDIO_DIR / sid exist
    chunk_dir, audio_dir,
    \* the session id each worker was made for: its my_chunk_dir is
    \* CHUNK_DIR / session_id (audio_engine.py:21, 29)
    my_chunk_dir,
    \* callers: the session_dir.name of the sweep between its activity check
    \* and its delete (session_manager.py:283-292), the thread inside
    \* AudioWorker.stop (audio_engine.py:573-577), and a record of the last
    \* call made and what it returned
    pruning, stopper, last_call,
    \* port_finder.py:13 and, for each caller of get_available_port /
    \* find_free_port, where it is in the call, its loop variable port (or
    \* the port it was returned) and its reserve argument
    _reserved_ports, finder

workerVars == <<preloaded_chunks, chunk_index, current_chunk_path,
                current_chunk_quality, lufs_in_progress, error_log, lock>>
vars == <<preloaded_chunks, chunk_index, current_chunk_path,
          current_chunk_quality, lufs_in_progress, error_log, lock,
          files, LUFS_LOCK, bg, next_idx, up, warnings,
          queue, cpc, video_id, collected_tracks, total_duration,
          popped, qsnap,
          active_session, session_metadata, created, running,
          chunk_dir, audio_dir, my_chunk_dir, pruning, stopper, last_call,
          _reserved_ports, finder>>
portVars == <<_reserved_ports, finder>>
callerVars == <<pruning, stopper, last_call, portVars>>
registryVars == <<active_session, session_metadata, created, running,
                  chunk_dir, audio_dir, my_chunk_dir>>
collectVars == <<queue, cpc, video_id, collected_tracks, total_duration,
                 popped, qsnap>>
pipelineVars == <<preloaded_chunks, chunk_index, current_chunk_path,
                  current_chunk_quality, lufs_in_progress, LUFS_LOCK, bg,
                  next_idx, up, warnings>>

\* ------------------------------------------------------------------ helpers
\* The worker of the active session.
Active == "A"

\* The directory worker w writes its chunks to, named after the active
\* worker when w was made for the same session id, after w itself otherwise.
DirOf(w) == IF my_chunk_dir[w] = my_chunk_dir[Active] THEN Active ELSE w

\* File names of chunk i of worker w: my_chunk_dir / f"{index}_immediate.mp3" ...
File(w, kind, i) == <<DirOf(w), kind, i>>
ImmediatePath(w, i) == File(w, "immediate", i)
QuickPath(w, i) == File(w, "quick", i)
FinalPath(w, i) == File(w, "final", i)
\* m_tmp_{index}.mp3, s_tmp_{index}.mp3 and the downloaded tracks of the chunk
Beds(w, i) == {File(w, "m_tmp", i), File(w, "s_tmp", i)}
Tracks(w, i) == {File(w, "m_tracks", i), File(w, "s_tracks", i)}

ChunkInfo(p, q, i) == [path |-> p, quality |-> q, index |-> i]

\* Mutant of LastN: the first n entries are kept.
LastN_First(s, n) == IF Len(s) <= n THEN s ELSE SubSeq(s, 1, n)

\* self.error_log.append(...); self.error_log = self.error_log[-10:]
LastN(s, n) == IF Len(s) <= n THEN s ELSE SubSeq(s, Len(s) - n + 1, Len(s))
LogError(log, msg) == LastN(Append(log, msg), ErrorLogKeep)

\* The loop of upgrade_pipeline over preloaded_chunks: the first entry whose
\* path is old is replaced by the new descriptor, then break.
ReplaceFirst(buf, old, new) ==
    IF \E k \in 1..Len(buf) : buf[k].path = old
    THEN LET k == CHOOSE j \in 1..Len(buf) :
                     /\ buf[j].path = old
                     /\ \A h \in 1..(j - 1) : buf[h].path # old
         IN [buf EXCEPT ![k] = new]
    ELSE buf

\* The model's bound on failures: error_log is the only unbounded record of them.
MayFail(w) == Len(error_log[w]) < MaxErrors

\* ------------------------------------------------------------------- Init
WorkerIds == 1..MaxWorkers

\* Playlist references a request may carry (/?m=...&s=...).
MusicIds == {"m1", "m2"}
SpeechIds == {"s1"}

\* get_session_id, session_manager.py:98-101: the first 12 hex digits of the
\* md5 of "music|speech"; a digest is represented by the pair it is taken of.
get_session_id(music_id, speech_id) == <<music_id, speech_id>>
SessionIds == {get_session_id(m, sp) : m \in MusicIds, sp \in SpeechIds}

\* The AudioWorker objects of the pipeline: B was created first, for the
\* playlists m2 and s1, and torn down by the switch that created A for m1
\* and s1.
ObjectOf(w) == IF w = "B" THEN 1 ELSE 2
SidOf(w) == IF w = "B" THEN get_session_id("m2", "s1")
            ELSE get_session_id("m1", "s1")

\* self.running of worker w (audio_engine.py:24, 419).
Running(w) == running[ObjectOf(w)]

\* The threads that ask for a port.
Callers == {"c1", "c2"}

\* start_port / start_range: 5000 (port_finder.py:47, 84).
StartPort == 5000
Ports == StartPort..(StartPort + MaxAttempts - 1)

\* preferred_port: None (0), or a port.
PreferredPorts == {0} \cup Ports

\* A caller outside any call.
Idle == [pc |-> "idle", port |-> 0, reserve |-> TRUE]

\* No sweep has passed its activity check, nobody is inside stop(), no call
\* was made, no port is reserved.
CallersInit ==
    /\ pruning = None
    /\ stopper = "idle"
    /\ last_call = None
    /\ _reserved_ports = {}
    /\ finder = [c \in Callers |-> Idle]

\* The registry after get_or_create_session (session_manager.py:103-135) was
\* called for B's playlists and then for A's: A is the active worker and
\* runs, B is stopped and its raw audio is removed.
RegistryInit ==
    /\ active_session = <<SidOf("A"), ObjectOf("A")>>
    /\ session_metadata = {SidOf("A"), SidOf("B")}
    /\ created = 2
    /\ running = [k \in WorkerIds |-> k = ObjectOf("A")]
    /\ chunk_dir = {SidOf("A"), SidOf("B")}
    /\ audio_dir = {SidOf("A")}
    /\ my_chunk_dir = [w \in Workers |-> SidOf(w)]
    /\ CallersInit

Init ==
    /\ RegistryInit
    /\ preloaded_chunks = [w \in Workers |-> <<>>]
    /\ chunk_index = [w \in Workers |-> 0]
    /\ current_chunk_path = [w \in Workers |-> None]
    /\ current_chunk_quality = [w \in Workers |-> "none"]
    /\ lufs_in_progress = [w \in Workers |-> {}]
    /\ error_log = [w \in Workers |-> <<>>]
    /\ lock = [w \in Workers |-> NoThread]
    /\ files = {}
    /\ LUFS_LOCK = None
    /\ bg = [w \in Workers |-> "top"]
    /\ next_idx = [w \in Workers |-> 0]
    /\ up = [w \in Workers |-> [i \in Chunks |-> "none"]]
    /\ warnings = {}
    /\ queue = [t \in QueueTypes |-> <<>>]
    /\ cpc = [t \in QueueTypes |-> "idle"]
    /\ video_id = [t \in QueueTypes |-> 0]
    /\ collected_tracks = [t \in QueueTypes |-> <<>>]
    /\ total_duration = [t \in QueueTypes |-> 0]
    /\ popped = [t \in QueueTypes |-> <<>>]
    /\ qsnap = [t \in QueueTypes |-> <<>>]

\* ------------------------------------------------------- background loop
\* Mutant of BgCheck: the next index is counted from the buffer alone.
BgCheck_BufferOnly(w) ==
    /\ bg[w] = "top"
    /\ Running(w)
    /\ lock[w] = NoThread
    /\ Len(preloaded_chunks[w]) < LookaheadDepth
    /\ chunk_index[w] + Len(preloaded_chunks[w]) + 1 <= MaxChunk
    /\ next_idx' = [next_idx EXCEPT ![w] = Len(preloaded_chunks[w]) + 1]
    /\ bg' = [bg EXCEPT ![w] = "prepare"]
    /\ UNCHANGED <<workerVars, files, LUFS_LOCK, up, warnings>>
    /\ UNCHANGED <<collectVars, registryVars, callerVars>>

\* Mutant of BgCheck: the loop does not test self.running.
BgCheck_IgnoresRunning(w) ==
    /\ bg[w] = "top"
    /\ lock[w] = NoThread
    /\ Len(preloaded_chunks[w]) < LookaheadDepth
    /\ chunk_index[w] + Len(preloaded_chunks[w]) + 1 <= MaxChunk
    /\ next_idx' = [next_idx EXCEPT ![w] =
                       chunk_index[w] + Len(preloaded_chunks[w]) + 1]
    /\ bg' = [bg EXCEPT ![w] = "prepare"]
    /\ UNCHANGED <<workerVars, files, LUFS_LOCK, up, warnings>>
    /\ UNCHANGED <<collectVars, registryVars, callerVars>>

\* Mutant of BgCheck: a chunk is prepared whatever the length of the buffer.
BgCheck_NoDepthTest(w) ==
    /\ bg[w] = "top"
    /\ Running(w)
    /\ lock[w] = NoThread
    /\ chunk_index[w] + Len(preloaded_chunks[w]) + 1 <= MaxChunk
    /\ next_idx' = [next_idx EXCEPT ![w] =
                       chunk_index[w] + Len(preloaded_chunks[w]) + 1]
    /\ bg' = [bg EXCEPT ![w] = "prepare"]
    /\ UNCHANGED <<workerVars, files, LUFS_LOCK, up, warnings>>
    /\ UNCHANGED <<collectVars, registryVars, callerVars>>

\* _background_loop, lines 419-423: `while self.running`, then under the
\* lock, decide and compute next_idx.  With a full buffer the loop sleeps (line 435) and checks again.
BgCheck(w) ==
    /\ bg[w] = "top"
    /\ Running(w)
    /\ lock[w] = NoThread
    /\ Len(preloaded_chunks[w]) < LookaheadDepth
    /\ chunk_index[w] + Len(preloaded_chunks[w]) + 1 <= MaxChunk
    /\ next_idx' = [next_idx EXCEPT ![w] =
                       chunk_index[w] + Len(preloaded_chunks[w]) + 1]
    /\ bg' = [bg EXCEPT ![w] = "prepare"]
    /\ UNCHANGED <<workerVars, files, LUFS_LOCK, up, warnings>>
    /\ UNCHANGED <<collectVars, registryVars, callerVars>>

\* prepare_chunk, lines 440-495 and 565: tracks collected, both beds
\* concatenated, the immediate mix written, the upgrade thread started.
PrepareOk(w) ==
    /\ bg[w] = "prepare"
    /\ lock[w] = NoThread
    /\ files' = files \cup Tracks(w, next_idx[w]) \cup Beds(w, next_idx[w])
                      \cup {ImmediatePath(w, next_idx[w])}
    /\ up' = [up EXCEPT ![w][next_idx[w]] = "quick"]
    /\ bg' = [bg EXCEPT ![w] = "append"]
    /\ UNCHANGED <<workerVars, LUFS_LOCK, next_idx, warnings>>
    /\ UNCHANGED <<collectVars, registryVars, callerVars>>

\* prepare_chunk, lines 448-473: a collector raised (m_error / s_error); the
\* other one's downloaded tracks stay on disk; the failure is logged, None
\* is returned and the loop sleeps (line 435).
PrepareCollectError(w) ==
    /\ bg[w] = "prepare"
    /\ lock[w] = NoThread
    /\ MayFail(w)
    /\ \E t \in {"m_tracks", "s_tracks"} :
          files' = files \cup {File(w, t, next_idx[w])}
    /\ error_log' = [error_log EXCEPT ![w] =
                        LogError(@, <<"collect", next_idx[w]>>)]
    /\ bg' = [bg EXCEPT ![w] = "top"]
    /\ UNCHANGED <<preloaded_chunks, chunk_index, current_chunk_path,
                   current_chunk_quality, lufs_in_progress, lock,
                   LUFS_LOCK, next_idx, up, warnings>>
    /\ UNCHANGED <<collectVars, registryVars, callerVars>>

\* _collect_tracks_for_chunk, lines 152-157: the queue is empty after the
\* refill; _log_error is called inside `with self.lock:` and waits for the
\* lock its own thread holds.  The collector never returns, prepare_chunk
\* waits in join() (line 468).
PrepareCollectHang(w) ==
    /\ bg[w] = "prepare"
    /\ lock[w] = NoThread
    /\ lock' = [lock EXCEPT ![w] = "collector"]
    /\ bg' = [bg EXCEPT ![w] = "join"]
    /\ UNCHANGED <<preloaded_chunks, chunk_index, current_chunk_path,
                   current_chunk_quality, lufs_in_progress, error_log,
                   files, LUFS_LOCK, next_idx, up, warnings>>
    /\ UNCHANGED <<collectVars, registryVars, callerVars>>

\* prepare_chunk, lines 476-482: a _concat fails, logs (lines 203, 206) and
\* prepare_chunk returns None; the tracks, and the music bed when the speech
\* bed failed, stay on disk.
PrepareConcatFail(w) ==
    /\ bg[w] = "prepare"
    /\ lock[w] = NoThread
    /\ MayFail(w)
    /\ \E made \in {{}, {File(w, "m_tmp", next_idx[w])}} :
          files' = files \cup Tracks(w, next_idx[w]) \cup made
    /\ error_log' = [error_log EXCEPT ![w] =
                        LogError(@, <<"concat", next_idx[w]>>)]
    /\ bg' = [bg EXCEPT ![w] = "top"]
    /\ UNCHANGED <<preloaded_chunks, chunk_index, current_chunk_path,
                   current_chunk_quality, lufs_in_progress, lock,
                   LUFS_LOCK, next_idx, up, warnings>>
    /\ UNCHANGED <<collectVars, registryVars, callerVars>>

\* Mutant of PrepareImmediateFail: the upgrade thread is started although the
\* immediate mix failed.
PrepareImmediateFail_StartsUpgrade(w) ==
    /\ bg[w] = "prepare"
    /\ lock[w] = NoThread
    /\ MayFail(w)
    /\ files' = files \ (Beds(w, next_idx[w]) \cup Tracks(w, next_idx[w]))
    /\ error_log' = [error_log EXCEPT ![w] =
                        LogError(@, <<"immediate", next_idx[w]>>)]
    /\ up' = [up EXCEPT ![w][next_idx[w]] = "quick"]
    /\ bg' = [bg EXCEPT ![w] = "top"]
    /\ UNCHANGED <<preloaded_chunks, chunk_index, current_chunk_path,
                   current_chunk_quality, lufs_in_progress, lock,
                   LUFS_LOCK, next_idx, warnings>>
    /\ UNCHANGED <<collectVars, registryVars, callerVars>>

\* prepare_chunk, lines 485-493: the immediate mix fails (lines 252, 260,
\* 488); beds and tracks are removed and None is returned.
PrepareImmediateFail(w) ==
    /\ bg[w] = "prepare"
    /\ lock[w] = NoThread
    /\ MayFail(w)
    /\ files' = files \ (Beds(w, next_idx[w]) \cup Tracks(w, next_idx[w]))
    /\ error_log' = [error_log EXCEPT ![w] =
                        LogError(@, <<"immediate", next_idx[w]>>)]
    /\ bg' = [bg EXCEPT ![w] = "top"]
    /\ UNCHANGED <<preloaded_chunks, chunk_index, current_chunk_path,
                   current_chunk_quality, lufs_in_progress, lock,
                   LUFS_LOCK, next_idx, up, warnings>>
    /\ UNCHANGED <<collectVars, registryVars, callerVars>>

\* Mutant of BgAppend: the descriptor returned by prepare_chunk is dropped.
BgAppend_Drops(w) ==
    /\ bg[w] = "append"
    /\ lock[w] = NoThread
    /\ bg' = [bg EXCEPT ![w] = "top"]
    /\ UNCHANGED <<workerVars, files, LUFS_LOCK, next_idx, up, warnings>>
    /\ UNCHANGED <<collectVars, registryVars, callerVars>>

\* _background_loop, lines 428-431 and 435: the descriptor returned by
\* prepare_chunk (lines 567-571) is appended under the lock; then the sleep.
BgAppend(w) ==
    /\ bg[w] = "append"
    /\ lock[w] = NoThread
    /\ preloaded_chunks' = [preloaded_chunks EXCEPT ![w] =
           Append(@, ChunkInfo(ImmediatePath(w, next_idx[w]), "immediate",
                               next_idx[w]))]
    /\ bg' = [bg EXCEPT ![w] = "top"]
    /\ UNCHANGED <<chunk_index, current_chunk_path, current_chunk_quality,
                   lufs_in_progress, error_log, lock, files, LUFS_LOCK,
                   next_idx, up, warnings>>
    /\ UNCHANGED <<collectVars, registryVars, callerVars>>

Background(w) ==
    \/ BgCheck(w)
    \/ PrepareOk(w)
    \/ PrepareCollectError(w)
    \/ PrepareCollectHang(w)
    \/ PrepareConcatFail(w)
    \/ PrepareImmediateFail(w)
    \/ BgAppend(w)

\* ---------------------------------------------------- upgrade pipeline
\* upgrade_pipeline, lines 507-510 / 537-540: the current chunk is switched
\* only if it still names the previous tier's file.
SwappedPath(cur, old, new) == IF cur = old THEN new ELSE cur
SwappedQuality(cur, curq, old, q) == IF cur = old THEN q ELSE curq

\* Mutant of UpQuickMix: after a failed quick mix the task goes on to unlink
\* the immediate file.
UpQuickMix_FailDeletes(w, i) ==
    /\ up[w][i] = "quick"
    /\ lock[w] = NoThread
    /\ \/ /\ files' = files \cup {QuickPath(w, i)}
          /\ up' = [up EXCEPT ![w][i] = "swap_quick"]
          /\ UNCHANGED error_log
       \/ /\ MayFail(w)
          /\ error_log' = [error_log EXCEPT ![w] = LogError(@, <<"quick", i>>)]
          /\ up' = [up EXCEPT ![w][i] = "del_immediate"]
          /\ UNCHANGED files
    /\ UNCHANGED <<preloaded_chunks, chunk_index, current_chunk_path,
                   current_chunk_quality, lufs_in_progress, lock,
                   LUFS_LOCK, bg, next_idx, warnings>>
    /\ UNCHANGED <<collectVars, registryVars, callerVars>>

\* _prepare_quick_mix, lines 263-307 (called at line 503): the quick file is
\* written, or ffmpeg fails or times out and the failure is logged.
UpQuickMix(w, i) ==
    /\ up[w][i] = "quick"
    /\ lock[w] = NoThread
    /\ \/ /\ files' = files \cup {QuickPath(w, i)}
          /\ up' = [up EXCEPT ![w][i] = "swap_quick"]
          /\ UNCHANGED error_log
       \/ /\ MayFail(w)
          /\ error_log' = [error_log EXCEPT ![w] = LogError(@, <<"quick", i>>)]
          /\ up' = [up EXCEPT ![w][i] = "cleanup"]
          /\ UNCHANGED files
    /\ UNCHANGED <<preloaded_chunks, chunk_index, current_chunk_path,
                   current_chunk_quality, lufs_in_progress, lock,
                   LUFS_LOCK, bg, next_idx, warnings>>
    /\ UNCHANGED <<collectVars, registryVars, callerVars>>

\* Mutant of UpSwapQuick: the current chunk is one for all workers, that of
\* the worker of the active session.
UpSwapQuick_SharedCurrent(w, i) ==
    /\ up[w][i] = "swap_quick"
    /\ lock[w] = NoThread
    /\ current_chunk_path' = [current_chunk_path EXCEPT !["A"] = QuickPath(w, i)]
    /\ current_chunk_quality' = [current_chunk_quality EXCEPT !["A"] = "quick"]
    /\ preloaded_chunks' = [preloaded_chunks EXCEPT ![w] =
           ReplaceFirst(@, ImmediatePath(w, i),
                        ChunkInfo(QuickPath(w, i), "quick", i))]
    /\ up' = [up EXCEPT ![w][i] = "del_immediate"]
    /\ UNCHANGED <<chunk_index, lufs_in_progress, error_log, lock, files,
                   LUFS_LOCK, bg, next_idx, warnings>>
    /\ UNCHANGED <<collectVars, registryVars, callerVars>>

\* upgrade_pipeline, lines 506-519: under the lock, current chunk and the
\* matching lookahead entry are switched from the immediate to the quick file.
UpSwapQuick(w, i) ==
    /\ up[w][i] = "swap_quick"
    /\ lock[w] = NoThread
    /\ current_chunk_path' = [current_chunk_path EXCEPT ![w] =
           SwappedPath(@, ImmediatePath(w, i), QuickPath(w, i))]
    /\ current_chunk_quality' = [current_chunk_quality EXCEPT ![w] =
           SwappedQuality(current_chunk_path[w], @, ImmediatePath(w, i), "quick")]
    /\ preloaded_chunks' = [preloaded_chunks EXCEPT ![w] =
           ReplaceFirst(@, ImmediatePath(w, i),
                        ChunkInfo(QuickPath(w, i), "quick", i))]
    /\ up' = [up EXCEPT ![w][i] = "del_immediate"]
    /\ UNCHANGED <<chunk_index, lufs_in_progress, error_log, lock, files,
                   LUFS_LOCK, bg, next_idx, warnings>>
    /\ UNCHANGED <<collectVars, registryVars, callerVars>>

\* upgrade_pipeline, lines 521-522: the immediate file is unlinked, outside
\* the lock.
UpDeleteImmediate(w, i) ==
    /\ up[w][i] = "del_immediate"
    /\ files' = files \ {ImmediatePath(w, i)}
    /\ up' = [up EXCEPT ![w][i] = "check_lufs"]
    /\ UNCHANGED <<workerVars, LUFS_LOCK, bg, next_idx, warnings>>
    /\ UNCHANGED <<collectVars, registryVars, callerVars>>

\* The name of the thread of upgrade task i, as a holder of a session lock.
UpgradeThread(i) == "upgrade" \o ToString(i)

\* Mutant of UpCheckCapacity: _prepare_final_mix is called with the session
\* lock of line 526 still held.
UpCheckCapacity_KeepsLock(w, i) ==
    /\ up[w][i] = "check_lufs"
    /\ lock[w] = NoThread
    /\ IF Cardinality(lufs_in_progress[w]) >= LufsCap
       THEN /\ warnings' = warnings \cup {<<w, i>>}
            /\ up' = [up EXCEPT ![w][i] = "cleanup"]
            /\ UNCHANGED lock
       ELSE /\ up' = [up EXCEPT ![w][i] = "wait_gate"]
            /\ lock' = [lock EXCEPT ![w] = UpgradeThread(i)]
            /\ UNCHANGED warnings
    /\ UNCHANGED <<preloaded_chunks, chunk_index, current_chunk_path,
                   current_chunk_quality, lufs_in_progress, error_log,
                   files, LUFS_LOCK, bg, next_idx>>
    /\ UNCHANGED <<collectVars, registryVars, callerVars>>

\* Mutant of UpCheckCapacity: the final tier is attempted whatever the count.
UpCheckCapacity_NoCap(w, i) ==
    /\ up[w][i] = "check_lufs"
    /\ lock[w] = NoThread
    /\ up' = [up EXCEPT ![w][i] = "wait_gate"]
    /\ UNCHANGED warnings
    /\ UNCHANGED <<workerVars, files, LUFS_LOCK, bg, next_idx>>
    /\ UNCHANGED <<collectVars, registryVars, callerVars>>

\* upgrade_pipeline, lines 526-532: the number of final mixes in flight is
\* read under the lock; at LufsCap or more the final tier is skipped with a
\* log.warning (no _log_error), otherwise _prepare_final_mix is called.
UpCheckCapacity(w, i) ==
    /\ up[w][i] = "check_lufs"
    /\ lock[w] = NoThread
    /\ IF Cardinality(lufs_in_progress[w]) >= LufsCap
       THEN /\ warnings' = warnings \cup {<<w, i>>}
            /\ up' = [up EXCEPT ![w][i] = "cleanup"]
       ELSE /\ up' = [up EXCEPT ![w][i] = "wait_gate"]
            /\ UNCHANGED warnings
    /\ UNCHANGED <<workerVars, files, LUFS_LOCK, bg, next_idx>>
    /\ UNCHANGED <<collectVars, registryVars, callerVars>>

\* Mutant of FinalAcquireGate: the final mix starts without waiting for the gate.
FinalAcquireGate_NoWait(w, i) ==
    /\ up[w][i] = "wait_gate"
    /\ LUFS_LOCK' = <<w, i>>
    /\ up' = [up EXCEPT ![w][i] = "lufs_add"]
    /\ UNCHANGED <<workerVars, files, bg, next_idx, warnings>>
    /\ UNCHANGED <<collectVars, registryVars, callerVars>>

\* _prepare_final_mix, line 315: `with LUFS_LOCK:` blocks until the gate is free.
FinalAcquireGate(w, i) ==
    /\ up[w][i] = "wait_gate"
    /\ LUFS_LOCK = None
    /\ LUFS_LOCK' = <<w, i>>
    /\ up' = [up EXCEPT ![w][i] = "lufs_add"]
    /\ UNCHANGED <<workerVars, files, bg, next_idx, warnings>>
    /\ UNCHANGED <<collectVars, registryVars, callerVars>>

\* _prepare_final_mix, lines 318-321: inside the gate, under the session lock.
FinalAddInProgress(w, i) ==
    /\ up[w][i] = "lufs_add"
    /\ lock[w] = NoThread
    /\ lufs_in_progress' = [lufs_in_progress EXCEPT ![w] = @ \cup {i}]
    /\ up' = [up EXCEPT ![w][i] = "final_run"]
    /\ UNCHANGED <<preloaded_chunks, chunk_index, current_chunk_path,
                   current_chunk_quality, error_log, lock, files, LUFS_LOCK,
                   bg, next_idx, warnings>>
    /\ UNCHANGED <<collectVars, registryVars, callerVars>>

\* _prepare_final_mix, lines 401-409: ffmpeg exits 0; the index is discarded
\* under the lock and the gate is released on return.
FinalMixSucceed(w, i) ==
    /\ up[w][i] = "final_run"
    /\ lock[w] = NoThread
    /\ files' = files \cup {FinalPath(w, i)}
    /\ lufs_in_progress' = [lufs_in_progress EXCEPT ![w] = @ \ {i}]
    /\ LUFS_LOCK' = None
    /\ up' = [up EXCEPT ![w][i] = "swap_final"]
    /\ UNCHANGED <<preloaded_chunks, chunk_index, current_chunk_path,
                   current_chunk_quality, error_log, lock, bg, next_idx,
                   warnings>>
    /\ UNCHANGED <<collectVars, registryVars, callerVars>>

\* _prepare_final_mix, lines 395-399: ffmpeg exits non-zero; the failure is
\* logged and None is returned (the gate is released); the index is not
\* discarded from lufs_in_progress on this path.
FinalMixFail(w, i) ==
    /\ up[w][i] = "final_run"
    /\ lock[w] = NoThread
    /\ MayFail(w)
    /\ error_log' = [error_log EXCEPT ![w] = LogError(@, <<"final", i>>)]
    /\ LUFS_LOCK' = None
    /\ up' = [up EXCEPT ![w][i] = "cleanup"]
    /\ UNCHANGED <<preloaded_chunks, chunk_index, current_chunk_path,
                   current_chunk_quality, lufs_in_progress, lock, files,
                   bg, next_idx, warnings>>
    /\ UNCHANGED <<collectVars, registryVars, callerVars>>

\* _prepare_final_mix, lines 411-415: an exception; logged, index discarded.
FinalMixRaise(w, i) ==
    /\ up[w][i] = "final_run"
    /\ lock[w] = NoThread
    /\ MayFail(w)
    /\ error_log' = [error_log EXCEPT ![w] = LogError(@, <<"final_exc", i>>)]
    /\ lufs_in_progress' = [lufs_in_progress EXCEPT ![w] = @ \ {i}]
    /\ LUFS_LOCK' = None
    /\ up' = [up EXCEPT ![w][i] = "cleanup"]
    /\ UNCHANGED <<preloaded_chunks, chunk_index, current_chunk_path,
                   current_chunk_quality, lock, files, bg, next_idx, warnings>>
    /\ UNCHANGED <<collectVars, registryVars, callerVars>>

\* Mutant of UpSwapFinal: the paths are switched, the qualities are not.
UpSwapFinal_PathOnly(w, i) ==
    /\ up[w][i] = "swap_final"
    /\ lock[w] = NoThread
    /\ current_chunk_path' = [current_chunk_path EXCEPT ![w] =
           SwappedPath(@, QuickPath(w, i), FinalPath(w, i))]
    /\ preloaded_chunks' = [preloaded_chunks EXCEPT ![w] =
           ReplaceFirst(@, QuickPath(w, i),
                        ChunkInfo(FinalPath(w, i), "quick", i))]
    /\ up' = [up EXCEPT ![w][i] = "del_quick"]
    /\ UNCHANGED <<chunk_index, current_chunk_quality, lufs_in_progress,
                   error_log, lock, files, LUFS_LOCK, bg, next_idx, warnings>>
    /\ UNCHANGED <<collectVars, registryVars, callerVars>>

\* upgrade_pipeline, lines 536-549: as for quick, from the quick to the final file.
UpSwapFinal(w, i) ==
    /\ up[w][i] = "swap_final"
    /\ lock[w] = NoThread
    /\ current_chunk_path' = [current_chunk_path EXCEPT ![w] =
           SwappedPath(@, QuickPath(w, i), FinalPath(w, i))]
    /\ current_chunk_quality' = [current_chunk_quality EXCEPT ![w] =
           SwappedQuality(current_chunk_path[w], @, QuickPath(w, i), "final")]
    /\ preloaded_chunks' = [preloaded_chunks EXCEPT ![w] =
           ReplaceFirst(@, QuickPath(w, i),
                        ChunkInfo(FinalPath(w, i), "final", i))]
    /\ up' = [up EXCEPT ![w][i] = "del_quick"]
    /\ UNCHANGED <<chunk_index, lufs_in_progress, error_log, lock, files,
                   LUFS_LOCK, bg, next_idx, warnings>>
    /\ UNCHANGED <<collectVars, registryVars, callerVars>>

\* upgrade_pipeline, line 551: the quick file is unlinked, outside the lock.
UpDeleteQuick(w, i) ==
    /\ up[w][i] = "del_quick"
    /\ files' = files \ {QuickPath(w, i)}
    /\ up' = [up EXCEPT ![w][i] = "cleanup"]
    /\ UNCHANGED <<workerVars, LUFS_LOCK, bg, next_idx, warnings>>
    /\ UNCHANGED <<collectVars, registryVars, callerVars>>

\* upgrade_pipeline, lines 554-560: beds and tracks are unlinked on every path.
UpCleanup(w, i) ==
    /\ up[w][i] = "cleanup"
    /\ files' = files \ (Beds(w, i) \cup Tracks(w, i))
    /\ up' = [up EXCEPT ![w][i] = "done"]
    /\ UNCHANGED <<workerVars, LUFS_LOCK, bg, next_idx, warnings>>
    /\ UNCHANGED <<collectVars, registryVars, callerVars>>

Upgrade(w, i) ==
    \/ UpQuickMix(w, i)
    \/ UpSwapQuick(w, i)
    \/ UpDeleteImmediate(w, i)
    \/ UpCheckCapacity(w, i)
    \/ FinalAcquireGate(w, i)
    \/ FinalAddInProgress(w, i)
    \/ FinalMixSucceed(w, i)
    \/ FinalMixFail(w, i)
    \/ FinalMixRaise(w, i)
    \/ UpSwapFinal(w, i)
    \/ UpDeleteQuick(w, i)
    \/ UpCleanup(w, i)

\* ------------------------------------------------------------ HTTP routes
\* Mutant of Promote: the quality of the promoted entry is not copied.
Promote_StaleQuality(w) ==
    /\ current_chunk_path' = [current_chunk_path EXCEPT ![w] =
                                 Head(preloaded_chunks[w]).path]
    /\ UNCHANGED current_chunk_quality
    /\ preloaded_chunks' = [preloaded_chunks EXCEPT ![w] = Tail(@)]
    /\ chunk_index' = [chunk_index EXCEPT ![w] = @ + 1]

\* routes.py:201-205 and 261-265: pop the head of the buffer into current.
Promote(w) ==
    /\ current_chunk_path' = [current_chunk_path EXCEPT ![w] =
                                 Head(preloaded_chunks[w]).path]
    /\ current_chunk_quality' = [current_chunk_quality EXCEPT ![w] =
                                    Head(preloaded_chunks[w]).quality]
    /\ preloaded_chunks' = [preloaded_chunks EXCEPT ![w] = Tail(@)]
    /\ chunk_index' = [chunk_index EXCEPT ![w] = @ + 1]

\* stream_current, routes.py:185-209: one pass of the wait loop, under the
\* worker's lock: send the current file if it exists, else promote the head
\* of the buffer and send it if it exists, else wait and retry.
StreamCurrent(w) ==
    /\ lock[w] = NoThread
    /\ IF current_chunk_path[w] # None /\ current_chunk_path[w] \in files
       THEN UNCHANGED <<preloaded_chunks, chunk_index, current_chunk_path,
                        current_chunk_quality>>
       ELSE /\ preloaded_chunks[w] # <<>>
            /\ Promote(w)
    /\ UNCHANGED <<lufs_in_progress, error_log, lock, files, LUFS_LOCK, bg,
                   next_idx, up, warnings>>
    /\ UNCHANGED <<collectVars, registryVars, callerVars>>

\* Mutant of NextChunk: the outgoing chunk's file is left on disk.
NextChunk_KeepFile(w) ==
    /\ lock[w] = NoThread
    /\ preloaded_chunks[w] # <<>>
    /\ current_chunk_path' = [current_chunk_path EXCEPT ![w] =
                                 Head(preloaded_chunks[w]).path]
    /\ current_chunk_quality' = [current_chunk_quality EXCEPT ![w] =
                                    Head(preloaded_chunks[w]).quality]
    /\ preloaded_chunks' = [preloaded_chunks EXCEPT ![w] = Tail(@)]
    /\ chunk_index' = [chunk_index EXCEPT ![w] = @ + 1]
    /\ UNCHANGED <<lufs_in_progress, error_log, lock, files, LUFS_LOCK, bg,
                   next_idx, up, warnings>>
    /\ UNCHANGED <<collectVars, registryVars, callerVars>>

\* next_chunk, routes.py:251-280: under the worker's lock, unlink the current
\* file if it exists, then promote the head of the buffer or answer 503.
NextChunk(w) ==
    /\ lock[w] = NoThread
    /\ files' = IF current_chunk_path[w] # None
                THEN files \ {current_chunk_path[w]} ELSE files
    /\ IF preloaded_chunks[w] # <<>>
       THEN Promote(w)
       ELSE UNCHANGED <<preloaded_chunks, chunk_index, current_chunk_path,
                        current_chunk_quality>>
    /\ UNCHANGED <<lufs_in_progress, error_log, lock, LUFS_LOCK, bg,
                   next_idx, up, warnings>>
    /\ UNCHANGED <<collectVars, registryVars, callerVars>>

\* ------------------------------------------------- track collection
\* audio_dir / f"{queue_type}_{video_id}.mp3" (line 160)
AudioPath(t, v) == File("A", t, v)

\* Mutant of EnsureQueueFilled: the new ids are put before the queued ones.
EnsureQueueFilled_Prepend(q, new_ids) ==
    IF Len(q) < LowWater /\ new_ids # <<>> THEN new_ids \o q ELSE q

\* line 139: get_video_ids is called only for a queue shorter than LowWater.
Fetches(q) == Len(q) < LowWater

\* _ensure_queue_filled, lines 139-143, given what get_video_ids returned.
EnsureQueueFilled(q, new_ids) ==
    IF Len(q) < LowWater /\ new_ids # <<>> THEN q \o new_ids ELSE q

\* line 162: total_duration > (target_duration * 0.9)
AtNinetyPercent(total, target) == total * 10 > target * 9

\* Mutant of LoopContinues: the loop goes on at exactly the target.
LoopContinues_Inclusive(total, target) == total <= target

\* line 151: while total_duration < target_duration
LoopContinues(total, target) == total < target

\* Mutant of Usable: a track of exactly 5 seconds is taken.
Usable_Inclusive(duration) == duration >= MinDuration

\* line 172: if duration > 5
Usable(duration) == duration > MinDuration

\* _collect_tracks_for_chunk, lines 151-153: the loop test, `with self.lock:`
\* and _ensure_queue_filled.  get_video_ids returns ids, or catches an
\* exception and calls _log_error (line 98) while the lock is still held.
LoopRefill(t) ==
    /\ cpc[t] = "loop"
    /\ LoopContinues(total_duration[t], TargetChunkDuration)
    /\ lock["A"] = NoThread
    /\ lock' = [lock EXCEPT !["A"] = t]
    /\ \/ \E r \in RefillResults :
             /\ Len(EnsureQueueFilled(queue[t], r)) <= MaxQueue
             /\ queue' = [queue EXCEPT ![t] = EnsureQueueFilled(@, r)]
             /\ cpc' = [cpc EXCEPT ![t] = "pop"]
       \/ /\ Len(queue[t]) < LowWater
          /\ cpc' = [cpc EXCEPT ![t] = "log_resolve"]
          /\ UNCHANGED queue
    /\ UNCHANGED <<registryVars, callerVars, pipelineVars, error_log, files, video_id,
                   collected_tracks, total_duration, popped, qsnap>>

\* The same step while the record of popped ids has room.
CollectRefill(t) ==
    /\ Len(popped[t]) < MaxPops
    /\ LoopRefill(t)

\* lines 154-158, still inside `with self.lock:`: an empty queue calls
\* _log_error (line 156); otherwise the head is popped and the lock released.
PopHead(t) ==
    /\ cpc[t] = "pop"
    /\ lock["A"] = t
    /\ IF queue[t] = <<>>
       THEN /\ cpc' = [cpc EXCEPT ![t] = "log_empty"]
            /\ UNCHANGED <<lock, queue, video_id, qsnap>>
       ELSE /\ qsnap' = [qsnap EXCEPT ![t] = queue[t]]
            /\ video_id' = [video_id EXCEPT ![t] = Head(queue[t])]
            /\ queue' = [queue EXCEPT ![t] = Tail(@)]
            /\ lock' = [lock EXCEPT !["A"] = NoThread]
            /\ cpc' = [cpc EXCEPT ![t] = "check90"]
    /\ UNCHANGED <<registryVars, callerVars, pipelineVars, error_log, files, collected_tracks,
                   total_duration>>

\* The same step, with the popped id added to the record of the call's pops.
CollectPopHead(t) ==
    /\ PopHead(t)
    /\ popped' = IF queue[t] = <<>> THEN popped
                 ELSE [popped EXCEPT ![t] = Append(@, Head(queue[t]))]

\* Where a collector goes on once _log_error has returned: back into the
\* refill (line 99 returns []), out of the loop (line 157 break), or to the
\* end of the collector thread (lines 451-453).
AfterLog(pc) ==
    CASE pc = "log_resolve" -> "pop"
      [] pc = "log_empty" -> "done"
      [] OTHER -> "failed"

\* _log_error, lines 66-71: `with self.lock:` append and keep the last 10.
\* threading.Lock is not reentrant: the caller waits until the lock is free,
\* also when the holder is the caller itself.
CollectLogError(t) ==
    /\ cpc[t] \in {"log_resolve", "log_empty", "log_raise"}
    /\ lock["A"] = NoThread
    /\ error_log' = [error_log EXCEPT !["A"] = LogError(@, <<cpc[t], t>>)]
    /\ cpc' = [cpc EXCEPT ![t] = AfterLog(cpc[t])]
    /\ UNCHANGED <<registryVars, callerVars, pipelineVars, lock, files, queue, video_id,
                   collected_tracks, total_duration, popped, qsnap>>

\* Mutant of CollectEarlyStop: the popped id is put back at the tail.
CollectEarlyStop_Tail(t) ==
    /\ cpc[t] = "check90"
    /\ total_duration[t] * 10 > TargetChunkDuration * 9
    /\ lock["A"] = NoThread
    /\ queue' = [queue EXCEPT ![t] = @ \o <<video_id[t]>>]
    /\ cpc' = [cpc EXCEPT ![t] = "done"]
    /\ UNCHANGED <<registryVars, callerVars, pipelineVars, error_log, lock, files, video_id,
                   collected_tracks, total_duration, popped, qsnap>>

\* lines 162-166: above 90% of the target the popped id goes back to the
\* head of the queue, under the lock, and the loop is left.
CollectEarlyStop(t) ==
    /\ cpc[t] = "check90"
    /\ AtNinetyPercent(total_duration[t], TargetChunkDuration)
    /\ lock["A"] = NoThread
    /\ queue' = [queue EXCEPT ![t] = <<video_id[t]>> \o @]
    /\ cpc' = [cpc EXCEPT ![t] = "done"]
    /\ UNCHANGED <<registryVars, callerVars, pipelineVars, error_log, lock, files, video_id,
                   collected_tracks, total_duration, popped, qsnap>>

\* lines 168-175: the download fails (continue), or the file is written and
\* probed; a track longer than 5 seconds is collected and counted.
CollectFetch(t) ==
    /\ cpc[t] = "check90"
    /\ ~AtNinetyPercent(total_duration[t], TargetChunkDuration)
    /\ \/ UNCHANGED <<files, collected_tracks, total_duration>>
       \/ \E d \in Durations :
             /\ files' = files \cup {AudioPath(t, video_id[t])}
             /\ IF Usable(d)
                THEN /\ collected_tracks' = [collected_tracks EXCEPT ![t] =
                            Append(@, [id |-> video_id[t], duration |-> d])]
                     /\ total_duration' = [total_duration EXCEPT ![t] = @ + d]
                ELSE UNCHANGED <<collected_tracks, total_duration>>
    /\ cpc' = [cpc EXCEPT ![t] = "loop"]
    /\ UNCHANGED <<registryVars, callerVars, pipelineVars, error_log, lock, queue, video_id,
                   popped, qsnap>>

\* collect_music / collect_speech, lines 448-460: an exception leaves
\* _collect_tracks_for_chunk during the fetch; the thread records it and
\* calls _log_error.
CollectRaise(t) ==
    /\ cpc[t] = "check90"
    /\ ~AtNinetyPercent(total_duration[t], TargetChunkDuration)
    /\ MayFail("A")
    /\ cpc' = [cpc EXCEPT ![t] = "log_raise"]
    /\ UNCHANGED <<registryVars, callerVars, pipelineVars, error_log, lock, files, queue, video_id,
                   collected_tracks, total_duration, popped, qsnap>>

\* line 151 false, lines 177-178: the collected tracks are returned.
CollectReturn(t) ==
    /\ cpc[t] = "loop"
    /\ ~LoopContinues(total_duration[t], TargetChunkDuration)
    /\ cpc' = [cpc EXCEPT ![t] = "done"]
    /\ UNCHANGED <<registryVars, callerVars, pipelineVars, error_log, lock, files, queue, video_id,
                   collected_tracks, total_duration, popped, qsnap>>

Collect(t) ==
    \/ CollectRefill(t)
    \/ CollectPopHead(t)
    \/ CollectLogError(t)
    \/ CollectEarlyStop(t)
    \/ CollectFetch(t)
    \/ CollectRaise(t)
    \/ CollectReturn(t)

\* ------------------------------------------------------------------- Next
\* The worker of the active session, with its routes.
Next ==
    \/ Background(Active)
    \/ \E i \in Chunks : Upgrade(Active, i)
    \/ StreamCurrent(Active)
    \/ NextChunk(Active)

Spec == Init /\ [][Next]_vars

\* The same behaviours with the scheduling the threads get: the background
\* thread (line 52) and every upgrade thread (line 565) that can take a step
\* is eventually run.
SpecLive ==
    /\ Spec
    /\ WF_vars(Background(Active))
    /\ \A i \in Chunks : WF_vars(Upgrade(Active, i))

\* ------------------------------------------------- stopping a worker
\* _background_loop, line 419: `while self.running` is false, the loop and
\* with it the thread end.
BgExit(w) ==
    /\ bg[w] = "top"
    /\ ~Running(w)
    /\ bg' = [bg EXCEPT ![w] = "exited"]
    /\ UNCHANGED <<workerVars, files, LUFS_LOCK, next_idx, up, warnings>>
    /\ UNCHANGED <<collectVars, registryVars, callerVars>>

\* AudioWorker.stop, lines 575-577: the flag is cleared; if the thread is
\* alive the caller goes into join(timeout=5).
Stop(w) ==
    /\ stopper = "idle"
    /\ running' = [running EXCEPT ![ObjectOf(w)] = FALSE]
    /\ stopper' = IF bg[w] = "exited" THEN "returned" ELSE "joining"
    /\ UNCHANGED <<active_session, session_metadata, created, chunk_dir,
                   audio_dir, my_chunk_dir, pruning, last_call, portVars>>
    /\ UNCHANGED <<workerVars, files, LUFS_LOCK, bg, next_idx, up, warnings,
                   collectVars>>

\* AudioWorker.stop, line 577: join returns when the thread has ended or
\* when the 5 seconds are over, whichever comes first.
StopReturn(w) ==
    /\ stopper = "joining"
    /\ stopper' = "returned"
    /\ UNCHANGED <<pruning, last_call, portVars>>
    /\ UNCHANGED <<workerVars, files, LUFS_LOCK, bg, next_idx, up, warnings,
                   collectVars, registryVars>>

\* The active worker with its consumer and a caller of stop().
NextLoop ==
    \/ Background(Active)
    \/ BgExit(Active)
    \/ \E i \in 1..MaxTracked : Upgrade(Active, i)
    \/ StreamCurrent(Active)
    \/ NextChunk(Active)
    \/ Stop(Active)
    \/ StopReturn(Active)

SpecLoop == Init /\ [][NextLoop]_vars

\* The same with the scheduling the threads get: the background thread, the
\* upgrade threads and the caller of stop() run when they can.
SpecLoopLive ==
    /\ SpecLoop
    /\ WF_vars(Background(Active))
    /\ WF_vars(BgExit(Active))
    /\ WF_vars(StopReturn(Active))
    /\ \A i \in 1..MaxTracked : WF_vars(Upgrade(Active, i))

\* ------------------------------------------------------ the error log
\* The messages of the model.  last_call records the last _log_error call
\* of the worker and its position among the calls made so far, which stands
\* for the 'time' of its entry.
LogTexts == {"queue empty", "mix failed"}
LogCalls == IF last_call = None THEN 0 ELSE last_call[4]

\* _log_error(message), lines 57-71, called with the lock free: the entry is
\* appended and the last ten are kept.
LogErrorCall(w, message) ==
    /\ lock[w] = NoThread
    /\ LogCalls < MaxLogged
    /\ error_log' = [error_log EXCEPT ![w] =
                        LogError(@, <<message, LogCalls + 1>>)]
    /\ last_call' = <<"_log_error", w, message, LogCalls + 1>>
    /\ UNCHANGED <<pruning, stopper, portVars>>
    /\ UNCHANGED <<preloaded_chunks, chunk_index, current_chunk_path,
                   current_chunk_quality, lufs_in_progress, lock, files,
                   LUFS_LOCK, bg, next_idx, up, warnings>>
    /\ UNCHANGED <<collectVars, registryVars>>

NextLog == \E message \in LogTexts : LogErrorCall(Active, message)

SpecLog == Init /\ [][NextLog]_vars

\* ------------------------------------------------ refill of a queue
\* Queues a refill may find: empty, one id, one below the low-water mark,
\* at the mark.
RefillQueues == {<<>>, <<7>>, [k \in 1..(LowWater - 1) |-> k],
                 [k \in 1..LowWater |-> k]}

InitRefill ==
    /\ RegistryInit
    /\ preloaded_chunks = [w \in Workers |-> <<>>]
    /\ chunk_index = [w \in Workers |-> 0]
    /\ current_chunk_path = [w \in Workers |-> None]
    /\ current_chunk_quality = [w \in Workers |-> "none"]
    /\ lufs_in_progress = [w \in Workers |-> {}]
    /\ error_log = [w \in Workers |-> <<>>]
    /\ lock = [w \in Workers |-> NoThread]
    /\ files = {}
    /\ LUFS_LOCK = None
    /\ bg = [w \in Workers |-> "top"]
    /\ next_idx = [w \in Workers |-> 0]
    /\ up = [w \in Workers |-> [i \in Chunks |-> "none"]]
    /\ warnings = {}
    /\ queue \in [QueueTypes -> RefillQueues]
    /\ cpc = [t \in QueueTypes |-> "idle"]
    /\ video_id = [t \in QueueTypes |-> 0]
    /\ collected_tracks = [t \in QueueTypes |-> <<>>]
    /\ total_duration = [t \in QueueTypes |-> 0]
    /\ popped = [t \in QueueTypes |-> <<>>]
    /\ qsnap = [t \in QueueTypes |-> <<>>]

\* _ensure_queue_filled(queue_type), lines 135-144, as one call: r is what
\* get_video_ids returns if it is called; last_call records whether it was
\* called, qsnap the queue the call found.
EnsureQueueFilledCall(t) ==
    /\ lock[Active] = NoThread
    /\ \E r \in RefillResults :
          /\ queue' = [queue EXCEPT ![t] = EnsureQueueFilled(@, r)]
          /\ last_call' = <<"_ensure_queue_filled", t, Fetches(queue[t]), r>>
    /\ qsnap' = [qsnap EXCEPT ![t] = queue[t]]
    /\ UNCHANGED <<pruning, stopper, portVars>>
    /\ UNCHANGED <<cpc, video_id, collected_tracks, total_duration, popped>>
    /\ UNCHANGED <<registryVars, pipelineVars, error_log, lock, files>>

NextRefill == \E t \in QueueTypes : EnsureQueueFilledCall(t)

SpecRefill == InitRefill /\ [][NextRefill]_vars

\* ------------------------------------------- collection of one chunk
\* The two collector threads of one prepare_chunk call of the active worker
\* (lines 462-469), from the queues an earlier call may have left.
InitQueues == {<<>>, <<1, 2, 3>>}

InitCollect ==
    /\ RegistryInit
    /\ preloaded_chunks = [w \in Workers |-> <<>>]
    /\ chunk_index = [w \in Workers |-> 0]
    /\ current_chunk_path = [w \in Workers |-> None]
    /\ current_chunk_quality = [w \in Workers |-> "none"]
    /\ lufs_in_progress = [w \in Workers |-> {}]
    /\ error_log = [w \in Workers |-> <<>>]
    /\ lock = [w \in Workers |-> NoThread]
    /\ files = {}
    /\ LUFS_LOCK = None
    /\ bg = [w \in Workers |-> IF w = Active THEN "prepare" ELSE "top"]
    /\ next_idx = [w \in Workers |-> IF w = Active THEN 1 ELSE 0]
    /\ up = [w \in Workers |-> [i \in Chunks |-> "none"]]
    /\ warnings = {}
    /\ queue \in [QueueTypes -> InitQueues]
    /\ cpc = [t \in QueueTypes |-> "loop"]
    /\ video_id = [t \in QueueTypes |-> 0]
    /\ collected_tracks = [t \in QueueTypes |-> <<>>]
    /\ total_duration = [t \in QueueTypes |-> 0]
    /\ popped = [t \in QueueTypes |-> <<>>]
    /\ qsnap = [t \in QueueTypes |-> <<>>]

NextCollect == \E t \in QueueTypes : Collect(t)

SpecCollect == InitCollect /\ [][NextCollect]_vars

\* ------------------------------------------- one collect call, unbounded
\* One call of _collect_tracks_for_chunk (lines 146-178) followed through as
\* many iterations of its loop as it makes: no record of the pops is kept.
Collector == "music"

\* lines 154-158 of one iteration.
LoopPopHead(t) ==
    /\ PopHead(t)
    /\ UNCHANGED popped

NextCollectLoop ==
    \/ LoopRefill(Collector)
    \/ LoopPopHead(Collector)
    \/ CollectLogError(Collector)
    \/ CollectEarlyStop(Collector)
    \/ CollectFetch(Collector)
    \/ CollectRaise(Collector)
    \/ CollectReturn(Collector)

SpecCollectLoop == InitCollect /\ [][NextCollectLoop]_vars

\* Every call the loop makes returns: the collector thread keeps running.
SpecCollectLoopLive == SpecCollectLoop /\ WF_vars(NextCollectLoop)

\* ------------------------------------------- upgrade tasks of two workers
\* The active worker A with chunks 1..MaxChunk prepared (the last two in
\* the lookahead buffer, the one before them current, the earlier ones
\* advanced past) and a torn-down worker B whose chunk 1 is still being
\* upgraded: every upgrade task is at the start of its quick mix.
GateTasks(w) == IF w = Active THEN Chunks ELSE {1}
GateCurrent(w) == IF w = Active THEN MaxChunk - LookaheadDepth ELSE 1
GateBuffer(w) ==
    IF w = Active
    THEN [k \in 1..LookaheadDepth |->
             ChunkInfo(ImmediatePath(w, GateCurrent(w) + k), "immediate",
                       GateCurrent(w) + k)]
    ELSE <<>>

GateFiles(w) ==
    UNION {Beds(w, i) \cup Tracks(w, i) \cup
           (IF i >= GateCurrent(w) THEN {ImmediatePath(w, i)} ELSE {}) :
           i \in GateTasks(w)}

InitGate ==
    /\ RegistryInit
    /\ preloaded_chunks = [w \in Workers |-> GateBuffer(w)]
    /\ chunk_index = [w \in Workers |-> GateCurrent(w)]
    /\ current_chunk_path = [w \in Workers |->
                                ImmediatePath(w, GateCurrent(w))]
    /\ current_chunk_quality = [w \in Workers |-> "immediate"]
    /\ lufs_in_progress = [w \in Workers |-> {}]
    /\ error_log = [w \in Workers |-> <<>>]
    /\ lock = [w \in Workers |-> NoThread]
    /\ files = UNION {GateFiles(w) : w \in Workers}
    /\ LUFS_LOCK = None
    /\ bg = [w \in Workers |-> "top"]
    /\ next_idx = [w \in Workers |-> Len(GateBuffer(w)) + GateCurrent(w)]
    /\ up = [w \in Workers |->
                [i \in Chunks |-> IF i \in GateTasks(w) THEN "quick" ELSE "none"]]
    /\ warnings = {}
    /\ queue = [t \in QueueTypes |-> <<>>]
    /\ cpc = [t \in QueueTypes |-> "idle"]
    /\ video_id = [t \in QueueTypes |-> 0]
    /\ collected_tracks = [t \in QueueTypes |-> <<>>]
    /\ total_duration = [t \in QueueTypes |-> 0]
    /\ popped = [t \in QueueTypes |-> <<>>]
    /\ qsnap = [t \in QueueTypes |-> <<>>]

NextGate == \E w \in Workers : \E i \in Chunks : Upgrade(w, i)

SpecGate == InitGate /\ [][NextGate]_vars

\* ------------------------------------------------- a reactivated session
\* The session of A was active before, with worker B; another session was
\* requested, which tore B down (session_manager.py:125-128: running False,
\* join(timeout=5), chunks kept); then the first session was requested again
\* and worker A was made for the same session id, hence with the same chunk
\* directory (audio_engine.py:29-31) and chunk_index 0.  B had prepared
\* chunk 1, whose upgrade task is at the start of its quick mix, and its
\* loop was inside prepare_chunk for chunk 2 when the join timed out.
Reactivated == [w \in Workers |-> SidOf(Active)]

InitReactivated ==
    /\ active_session = <<SidOf(Active), ObjectOf(Active)>>
    /\ session_metadata = SessionIds
    /\ created = MaxWorkers
    /\ running = [k \in WorkerIds |-> k = ObjectOf(Active)]
    /\ chunk_dir = SessionIds
    /\ audio_dir = {SidOf(Active)}
    /\ my_chunk_dir = Reactivated
    /\ CallersInit
    /\ preloaded_chunks = [w \in Workers |->
           IF w = Active THEN <<>>
           ELSE <<ChunkInfo(ImmediatePath(w, 1), "immediate", 1)>>]
    /\ chunk_index = [w \in Workers |-> 0]
    /\ current_chunk_path = [w \in Workers |-> None]
    /\ current_chunk_quality = [w \in Workers |-> "none"]
    /\ lufs_in_progress = [w \in Workers |-> {}]
    /\ error_log = [w \in Workers |-> <<>>]
    /\ lock = [w \in Workers |-> NoThread]
    /\ files = Beds("B", 1) \cup Tracks("B", 1) \cup {ImmediatePath("B", 1)}
    /\ LUFS_LOCK = None
    /\ bg = [w \in Workers |-> IF w = Active THEN "top" ELSE "prepare"]
    /\ next_idx = [w \in Workers |-> IF w = Active THEN 0 ELSE 2]
    /\ up = [w \in Workers |->
                [i \in Chunks |-> IF w # Active /\ i = 1 THEN "quick" ELSE "none"]]
    /\ warnings = {}
    /\ queue = [t \in QueueTypes |-> <<>>]
    /\ cpc = [t \in QueueTypes |-> "idle"]
    /\ video_id = [t \in QueueTypes |-> 0]
    /\ collected_tracks = [t \in QueueTypes |-> <<>>]
    /\ total_duration = [t \in QueueTypes |-> 0]
    /\ popped = [t \in QueueTypes |-> <<>>]
    /\ qsnap = [t \in QueueTypes |-> <<>>]

\* The threads of the torn-down worker beside the loop and the routes of the
\* active one, whose own upgrade tasks have not been scheduled yet.
NextReactivated ==
    \/ \E w \in Workers : Background(w)
    \/ \E w \in Workers : BgExit(w)
    \/ \E w \in Workers \ {Active} : \E i \in 1..MaxTracked : Upgrade(w, i)
    \/ StreamCurrent(Active)
    \/ NextChunk(Active)

SpecReactivated == InitReactivated /\ [][NextReactivated]_vars

\* ------------------------------------------------- the older AudioWorker
\* yt_mixer/src/yt_mixer/audio_engine.py with the routes of
\* yt_mixer/build/lib/yt_mixer/routes.py: the background loop and
\* stream_current promote the head of the buffer themselves and leave
\* chunk_index as it is.
PromoteHead(w) ==
    /\ current_chunk_path' = [current_chunk_path EXCEPT ![w] =
                                 Head(preloaded_chunks[w]).path]
    /\ current_chunk_quality' = [current_chunk_quality EXCEPT ![w] =
                                    Head(preloaded_chunks[w]).quality]
    /\ preloaded_chunks' = [preloaded_chunks EXCEPT ![w] = Tail(@)]
    /\ UNCHANGED chunk_index

\* _background_loop, lines 380-392: promotes under the lock when there is no
\* current chunk.
LoopPromotes(w) == current_chunk_path[w] = None /\ preloaded_chunks[w] # <<>>

\* The buffer once the promotion of lines 383-387 has or has not happened.
AfterPromotion(w) ==
    IF LoopPromotes(w) THEN Tail(preloaded_chunks[w]) ELSE preloaded_chunks[w]

\* _background_loop, lines 380-392 and 404: `while self.running`, then under
\* the lock the promotion, the depth test and next_idx; with a full buffer
\* the loop sleeps and comes back.
LegacyBgCheck(w) ==
    /\ bg[w] = "top"
    /\ Running(w)
    /\ lock[w] = NoThread
    /\ IF LoopPromotes(w)
       THEN PromoteHead(w)
       ELSE UNCHANGED <<preloaded_chunks, chunk_index, current_chunk_path,
                        current_chunk_quality>>
    /\ IF Len(AfterPromotion(w)) < LookaheadDepth
       THEN /\ chunk_index[w] + Len(AfterPromotion(w)) + 1 <= MaxChunk
            /\ next_idx' = [next_idx EXCEPT ![w] =
                               chunk_index[w] + Len(AfterPromotion(w)) + 1]
            /\ bg' = [bg EXCEPT ![w] = "prepare"]
       ELSE UNCHANGED <<next_idx, bg>>
    /\ UNCHANGED <<lufs_in_progress, error_log, lock, files, LUFS_LOCK, up,
                   warnings>>
    /\ UNCHANGED <<collectVars, registryVars, callerVars>>

\* prepare_chunk, lines 406-547: the immediate mix is written, the upgrade
\* thread started (line 540) and the descriptor returned.
LegacyPrepareOk(w) ==
    /\ bg[w] = "prepare"
    /\ lock[w] = NoThread
    /\ files' = files \cup Tracks(w, next_idx[w]) \cup Beds(w, next_idx[w])
                      \cup {ImmediatePath(w, next_idx[w])}
    /\ up' = [up EXCEPT ![w][next_idx[w]] = "quick"]
    /\ bg' = [bg EXCEPT ![w] = "append"]
    /\ UNCHANGED <<workerVars, LUFS_LOCK, next_idx, warnings>>
    /\ UNCHANGED <<collectVars, registryVars, callerVars>>

\* prepare_chunk, lines 441-447: nothing was collected; None is returned and
\* the loop sleeps.
LegacyPrepareFail(w) ==
    /\ bg[w] = "prepare"
    /\ lock[w] = NoThread
    /\ bg' = [bg EXCEPT ![w] = "top"]
    /\ UNCHANGED <<workerVars, files, LUFS_LOCK, next_idx, up, warnings>>
    /\ UNCHANGED <<collectVars, registryVars, callerVars>>

\* _background_loop, lines 396-400: the descriptor is appended under the lock.
LegacyAppend(w) ==
    /\ bg[w] = "append"
    /\ lock[w] = NoThread
    /\ preloaded_chunks' = [preloaded_chunks EXCEPT ![w] =
           Append(@, ChunkInfo(ImmediatePath(w, next_idx[w]), "immediate",
                               next_idx[w]))]
    /\ bg' = [bg EXCEPT ![w] = "top"]
    /\ UNCHANGED <<chunk_index, current_chunk_path, current_chunk_quality,
                   lufs_in_progress, error_log, lock, files, LUFS_LOCK,
                   next_idx, up, warnings>>
    /\ UNCHANGED <<collectVars, registryVars, callerVars>>

\* stream_current, build/lib/yt_mixer/routes.py:113-137: one pass of the wait
\* loop; the promotion of lines 130-134 leaves chunk_index alone.
LegacyStreamCurrent(w) ==
    /\ lock[w] = NoThread
    /\ ~(current_chunk_path[w] # None /\ current_chunk_path[w] \in files)
    /\ preloaded_chunks[w] # <<>>
    /\ PromoteHead(w)
    /\ UNCHANGED <<lufs_in_progress, error_log, lock, files, LUFS_LOCK, bg,
                   next_idx, up, warnings>>
    /\ UNCHANGED <<collectVars, registryVars, callerVars>>

\* advance_to_next_chunk, lines 557-579: under the lock the current file is
\* unlinked if it exists; the head of the buffer becomes current and
\* chunk_index grows, or current_chunk_path is cleared.
advance_to_next_chunk(w) ==
    /\ lock[w] = NoThread
    /\ files' = IF current_chunk_path[w] # None
                THEN files \ {current_chunk_path[w]} ELSE files
    /\ IF preloaded_chunks[w] # <<>>
       THEN Promote(w)
       ELSE /\ current_chunk_path' = [current_chunk_path EXCEPT ![w] = None]
            /\ UNCHANGED <<preloaded_chunks, chunk_index,
                           current_chunk_quality>>
    /\ UNCHANGED <<lufs_in_progress, error_log, lock, LUFS_LOCK, bg,
                   next_idx, up, warnings>>
    /\ UNCHANGED <<collectVars, registryVars, callerVars>>

\* The loop and the routes of the older worker; its upgrade tasks, which
\* change paths and qualities but no index, are not followed.
NextLegacy ==
    \/ LegacyBgCheck(Active)
    \/ LegacyPrepareOk(Active)
    \/ LegacyPrepareFail(Active)
    \/ LegacyAppend(Active)
    \/ LegacyStreamCurrent(Active)
    \/ advance_to_next_chunk(Active)

SpecLegacy == Init /\ [][NextLegacy]_vars

\* ------------------------------------------------------- port finder
\* yt_mixer/build/lib/yt_mixer/port_finder.py.  Each `with _port_lock:` block
\* is one step.
\* Mutant of ReserveOk: reserve_port does not look at the set.
ReserveOk_Always(port) == TRUE

\* reserve_port, lines 36-37: the port can be reserved if it is not yet.
ReserveOk(port) == port \notin _reserved_ports

\* find_free_port, `continue` (lines 66, 70, 75) and lines 79-81: the next
\* port of the range, or RuntimeError when the range is used up.
Continue(f) ==
    IF f.port + 1 \in Ports
    THEN [f EXCEPT !.pc = "scan", !.port = @ + 1]
    ELSE Idle

OnlyPorts ==
    UNCHANGED <<workerVars, files, LUFS_LOCK, bg, next_idx, up, warnings,
                collectVars, registryVars, pruning, stopper, last_call>>

\* get_available_port, lines 95-99: a preferred port that is_port_free
\* reports free goes to reserve_port; otherwise find_free_port is called.
GetAvailablePort(c, preferred_port) ==
    /\ finder[c].pc = "idle"
    /\ \E free \in BOOLEAN :
          finder' = [finder EXCEPT ![c] =
              IF preferred_port # 0 /\ free
              THEN [pc |-> "reserve_preferred", port |-> preferred_port,
                    reserve |-> TRUE]
              ELSE [pc |-> "scan", port |-> StartPort, reserve |-> TRUE]]
    /\ UNCHANGED _reserved_ports
    /\ OnlyPorts

\* get_available_port, lines 96-99: reserve_port(preferred_port); on False
\* find_free_port is called.
ReservePreferred(c) ==
    /\ finder[c].pc = "reserve_preferred"
    /\ IF ReserveOk(finder[c].port)
       THEN /\ _reserved_ports' = _reserved_ports \cup {finder[c].port}
            /\ finder' = [finder EXCEPT ![c].pc = "returned"]
       ELSE /\ finder' = [finder EXCEPT ![c] =
                   [pc |-> "scan", port |-> StartPort, reserve |-> TRUE]]
            /\ UNCHANGED _reserved_ports
    /\ OnlyPorts

\* find_free_port called directly, line 47.
FindFreePort(c, reserve) ==
    /\ finder[c].pc = "idle"
    /\ finder' = [finder EXCEPT ![c] =
           [pc |-> "scan", port |-> StartPort, reserve |-> reserve]]
    /\ UNCHANGED _reserved_ports
    /\ OnlyPorts

\* find_free_port, lines 62-66: under the lock, a reserved port is skipped.
ScanReserved(c) ==
    /\ finder[c].pc = "scan"
    /\ finder' = [finder EXCEPT ![c] =
           IF @.port \in _reserved_ports THEN Continue(@)
           ELSE [@ EXCEPT !.pc = "probe"]]
    /\ UNCHANGED _reserved_ports
    /\ OnlyPorts

\* find_free_port, lines 68-77: is_port_free says whether the port can be
\* bound; a free port is returned at once when reserve is False.
ScanProbe(c) ==
    /\ finder[c].pc = "probe"
    /\ \E free \in BOOLEAN :
          finder' = [finder EXCEPT ![c] =
              IF ~free THEN Continue(@)
              ELSE IF @.reserve THEN [@ EXCEPT !.pc = "reserve"]
              ELSE [@ EXCEPT !.pc = "returned"]]
    /\ UNCHANGED _reserved_ports
    /\ OnlyPorts

\* find_free_port, lines 73-77, with reserve_port, lines 34-38: check and
\* add under the lock; the port is returned, or skipped if it was taken
\* since line 65.
ScanReserve(c) ==
    /\ finder[c].pc = "reserve"
    /\ IF ReserveOk(finder[c].port)
       THEN /\ _reserved_ports' = _reserved_ports \cup {finder[c].port}
            /\ finder' = [finder EXCEPT ![c].pc = "returned"]
       ELSE /\ finder' = [finder EXCEPT ![c] = Continue(@)]
            /\ UNCHANGED _reserved_ports
    /\ OnlyPorts

\* release_port, lines 41-44, called by the caller that was given the port
\* (routes.py:371).
ReleasePort(c) ==
    /\ finder[c].pc = "returned"
    /\ finder[c].reserve
    /\ _reserved_ports' = _reserved_ports \ {finder[c].port}
    /\ finder' = [finder EXCEPT ![c] = Idle]
    /\ OnlyPorts

\* A caller of find_free_port(reserve=False) is done with its port.
DropPort(c) ==
    /\ finder[c].pc = "returned"
    /\ ~finder[c].reserve
    /\ finder' = [finder EXCEPT ![c] = Idle]
    /\ UNCHANGED _reserved_ports
    /\ OnlyPorts

NextPorts ==
    \E c \in Callers :
        \/ \E p \in PreferredPorts : GetAvailablePort(c, p)
        \/ ReservePreferred(c)
        \/ \E r \in BOOLEAN : FindFreePort(c, r)
        \/ ScanReserved(c)
        \/ ScanProbe(c)
        \/ ScanReserve(c)
        \/ ReleasePort(c)
        \/ DropPort(c)

SpecPorts == Init /\ [][NextPorts]_vars

\* ------------------------------------------------------ session manager
IsActive(sid) == active_session # None /\ active_session[1] = sid

\* Mutant of StoppedRunning: the teardown leaves the running flag set.
StoppedRunning_Noop(flags) == flags

\* Mutant of CleanedAudio: the teardown leaves the raw audio in place.
CleanedAudio_Keeps(dirs) == dirs

\* _cleanup_session, session_manager.py:184-196, applied to the active pair:
\* the running flag after it and the raw-audio directories after it.
StoppedRunning(flags) ==
    IF active_session = None THEN flags
    ELSE [flags EXCEPT ![active_session[2]] = FALSE]
CleanedAudio(dirs) ==
    IF active_session = None THEN dirs ELSE dirs \ {active_session[1]}

\* AudioWorker(sid, ...), audio_engine.py:20-53, after the teardown of the
\* previous active worker: both directories are made, running is True, and
\* the new pair becomes the active one (session_manager.py:132-133, 169-170).
SwitchTo(sid) ==
    /\ created < MaxWorkers
    /\ created' = created + 1
    /\ running' = [StoppedRunning(running) EXCEPT ![created + 1] = TRUE]
    /\ audio_dir' = CleanedAudio(audio_dir) \cup {sid}
    /\ chunk_dir' = chunk_dir \cup {sid}
    /\ active_session' = <<sid, created + 1>>
    /\ UNCHANGED my_chunk_dir

\* The branch get_or_create_session takes for sid: lines 120-122, lines
\* 125-128 and 131-135, or lines 131-135 alone.
Branch(sid) ==
    IF IsActive(sid) THEN "reused"
    ELSE IF active_session # None THEN "switched" ELSE "created"

\* Mutant of GetOrCreateSession: a worker is made for every call.
GetOrCreateSession_AlwaysNew(music_id, speech_id) ==
    LET sid == get_session_id(music_id, speech_id) IN
    /\ session_metadata' = session_metadata \cup {sid}
    /\ SwitchTo(sid)
    /\ last_call' = <<"get_or_create_session", sid, created + 1,
                      Branch(sid), active_session>>
    /\ UNCHANGED <<pruning, stopper, portVars>>
    /\ UNCHANGED <<collectVars, pipelineVars, error_log, lock, files>>

\* get_or_create_session, session_manager.py:103-135; last_call records the
\* pair returned (lines 122, 135), the branch that returned it and the
\* active pair the call found.
GetOrCreateSession(music_id, speech_id) ==
    LET sid == get_session_id(music_id, speech_id) IN
    /\ session_metadata' = session_metadata \cup {sid}
    /\ IF IsActive(sid)
       THEN /\ UNCHANGED <<active_session, created, running, chunk_dir,
                           audio_dir, my_chunk_dir>>
            /\ last_call' = <<"get_or_create_session", sid,
                              active_session[2], Branch(sid), active_session>>
       ELSE /\ SwitchTo(sid)
            /\ last_call' = <<"get_or_create_session", sid, created + 1,
                              Branch(sid), active_session>>
    /\ UNCHANGED <<pruning, stopper, portVars>>
    /\ UNCHANGED <<collectVars, pipelineVars, error_log, lock, files>>

\* load_session_by_id, session_manager.py:137-172: the active session is
\* returned as it is, an id without metadata is refused, any other id is
\* restored as a new worker.
LoadSessionById(sid) ==
    /\ IF IsActive(sid) \/ sid \notin session_metadata
       THEN UNCHANGED <<active_session, created, running, chunk_dir, audio_dir,
                        my_chunk_dir>>
       ELSE SwitchTo(sid)
    /\ UNCHANGED session_metadata
    /\ UNCHANGED callerVars
    /\ UNCHANGED <<collectVars, pipelineVars, error_log, lock, files>>

\* SessionManager.delete_session, session_manager.py:206-225, on the fields
\* of the manager and the directories.
delete_session(session_id) ==
    /\ running' = IF IsActive(session_id) THEN StoppedRunning(running)
                  ELSE running
    /\ active_session' = IF IsActive(session_id) THEN None ELSE active_session
    /\ session_metadata' = session_metadata \ {session_id}
    /\ chunk_dir' = chunk_dir \ {session_id}
    /\ audio_dir' = audio_dir \ {session_id}
    /\ UNCHANGED <<created, my_chunk_dir>>
    /\ UNCHANGED <<collectVars, pipelineVars, error_log, lock, files>>

\* Mutant of DeleteSession: the active pair is kept.
DeleteSession_KeepsActive(sid) ==
    /\ running' = IF IsActive(sid) THEN StoppedRunning(running) ELSE running
    /\ UNCHANGED active_session
    /\ session_metadata' = session_metadata \ {sid}
    /\ chunk_dir' = chunk_dir \ {sid}
    /\ audio_dir' = audio_dir \ {sid}
    /\ UNCHANGED <<created, my_chunk_dir>>
    /\ UNCHANGED callerVars
    /\ UNCHANGED <<collectVars, pipelineVars, error_log, lock, files>>

\* POST /api/session/<sid>/delete, routes.py:286-291.
DeleteSession(sid) ==
    /\ delete_session(sid)
    /\ UNCHANGED callerVars

\* _prune_old_sessions, session_manager.py:278-290: for a directory of
\* CHUNK_DIR the activity test is made under the manager's lock, the lock is
\* released, and the directory is found older than the retention window.
PruneCheck(sid) ==
    /\ pruning = None
    /\ sid \in chunk_dir
    /\ ~IsActive(sid)
    /\ pruning' = sid
    /\ UNCHANGED <<stopper, last_call, portVars>>
    /\ UNCHANGED registryVars
    /\ UNCHANGED <<collectVars, pipelineVars, error_log, lock, files>>

\* _prune_old_sessions, line 292: delete_session takes the lock again and
\* deletes; the loop goes on to the next directory.
PruneDelete ==
    /\ pruning # None
    /\ delete_session(pruning)
    /\ pruning' = None
    /\ UNCHANGED <<stopper, last_call, portVars>>

\* status_by_id, routes.py:83-106: 404 unless the id is the active session.
StatusById(sid) == IF IsActive(sid) THEN 200 ELSE 404

\* The registry as the process starts: sessions.json and the directories of
\* earlier runs may be there (session_manager.py:71-80).
InitRegistry ==
    /\ preloaded_chunks = [w \in Workers |-> <<>>]
    /\ chunk_index = [w \in Workers |-> 0]
    /\ current_chunk_path = [w \in Workers |-> None]
    /\ current_chunk_quality = [w \in Workers |-> "none"]
    /\ lufs_in_progress = [w \in Workers |-> {}]
    /\ error_log = [w \in Workers |-> <<>>]
    /\ lock = [w \in Workers |-> NoThread]
    /\ files = {}
    /\ LUFS_LOCK = None
    /\ bg = [w \in Workers |-> "top"]
    /\ next_idx = [w \in Workers |-> 0]
    /\ up = [w \in Workers |-> [i \in Chunks |-> "none"]]
    /\ warnings = {}
    /\ queue = [t \in QueueTypes |-> <<>>]
    /\ cpc = [t \in QueueTypes |-> "idle"]
    /\ video_id = [t \in QueueTypes |-> 0]
    /\ collected_tracks = [t \in QueueTypes |-> <<>>]
    /\ total_duration = [t \in QueueTypes |-> 0]
    /\ popped = [t \in QueueTypes |-> <<>>]
    /\ qsnap = [t \in QueueTypes |-> <<>>]
    /\ active_session = None
    /\ created = 0
    /\ running = [k \in WorkerIds |-> FALSE]
    /\ session_metadata \in SUBSET SessionIds
    /\ chunk_dir \in SUBSET SessionIds
    /\ audio_dir \in SUBSET SessionIds
    /\ my_chunk_dir = [w \in Workers |-> SidOf(w)]
    /\ CallersInit

NextRegistry ==
    \/ \E m \in MusicIds, sp \in SpeechIds : GetOrCreateSession(m, sp)
    \/ \E sid \in SessionIds : LoadSessionById(sid)
    \/ \E sid \in SessionIds : DeleteSession(sid)
    \/ \E sid \in SessionIds : PruneCheck(sid)
    \/ PruneDelete

SpecRegistry == InitRegistry /\ [][NextRegistry]_vars

\* ====================================================================
\* Properties
\* ====================================================================
Tasks == Workers \X Chunks

\* An upgrade task is inside the final-mix transcode: from the acquisition of
\* the gate (line 315) to the end of ffmpeg (lines 395-415).
InFinalMix(w, i) == up[w][i] \in {"lufs_add", "final_run"}

\* C1: at any instant at most one upgrade task, over all workers and chunks,
\* is inside the final-mix transcode, and it is the holder of the gate.
C1_OneFinalMixAtATime ==
    /\ Cardinality({x \in Tasks : InFinalMix(x[1], x[2])}) <= 1
    /\ \A x \in Tasks : InFinalMix(x[1], x[2]) => LUFS_LOCK = x

\* C1 witness: a task of one worker runs its final mix while a task of the
\* other worker waits at the gate.
C1_Witness ==
    \E x \in Tasks, y \in Tasks :
        /\ x[1] # y[1]
        /\ up[x[1]][x[2]] = "final_run"
        /\ up[y[1]][y[2]] = "wait_gate"

\* The files of the three tiers of chunk i of worker w.
TierPaths(w, i) == {ImmediatePath(w, i), QuickPath(w, i), FinalPath(w, i)}

\* The quality observed for chunk i of worker w: in the current-chunk fields
\* when the current path is a file of chunk i, else in its lookahead entry,
\* else "none" (not observable).
ObservedQuality(w, i) ==
    IF current_chunk_path[w] \in TierPaths(w, i)
    THEN current_chunk_quality[w]
    ELSE IF \E k \in 1..Len(preloaded_chunks[w]) :
                 preloaded_chunks[w][k].index = i
         THEN LET k == CHOOSE j \in 1..Len(preloaded_chunks[w]) :
                           preloaded_chunks[w][j].index = i
              IN preloaded_chunks[w][k].quality
         ELSE "none"

Rank(q) ==
    CASE q = "immediate" -> 1
      [] q = "quick" -> 2
      [] q = "final" -> 3
      [] OTHER -> 0

\* C2: for every chunk index the observed quality starts at immediate, never
\* decreases, and goes up one tier at a time (final only after quick).
C2_QualityMonotonic ==
    [][\A w \in Workers, i \in Chunks :
          LET q == ObservedQuality(w, i)
              r == ObservedQuality(w, i)'
          IN /\ (q = "none" /\ r # "none") => r = "immediate"
             /\ (q # "none" /\ r # "none") =>
                    /\ Rank(q) <= Rank(r)
                    /\ Rank(r) <= Rank(q) + 1]_vars

\* C2 witness: a chunk that was promoted to current is observed at final.
C2_Witness ==
    \E i \in Chunks :
        /\ current_chunk_path[Active] = FinalPath(Active, i)
        /\ ObservedQuality(Active, i) = "final"

\* C3: whenever the session lock can be taken, a non-null current_chunk_path
\* names a file that exists.
C3_CurrentFileExists ==
    \A w \in Workers :
        (lock[w] = NoThread /\ current_chunk_path[w] # None)
            => current_chunk_path[w] \in files

\* C4: no lookahead-buffer entry references a file that does not exist.
C4_BufferEntriesExist ==
    \A w \in Workers : \A k \in 1..Len(preloaded_chunks[w]) :
        preloaded_chunks[w][k].path \in files

\* C5: a collector that found its queue empty after the refill is not stuck:
\* the lock its _log_error call needs is not held by the collector itself.
C5_QueueEmptyDoesNotHang ==
    \A t \in QueueTypes : cpc[t] = "log_empty" => lock[Active] # t

\* C6: when collect leaves the 90% check with more than 90% of the target
\* accumulated, it returns with the queue exactly as it was before the pop,
\* and nothing fetched or collected.
C6_EarlyStopRequeues ==
    [][\A t \in QueueTypes :
          (/\ cpc[t] = "check90"
           /\ cpc'[t] # "check90"
           /\ total_duration[t] * 10 > TargetChunkDuration * 9)
          => /\ cpc'[t] = "done"
             /\ queue'[t] = qsnap[t]
             /\ Head(queue'[t]) = video_id[t]
             /\ collected_tracks'[t] = collected_tracks[t]
             /\ total_duration'[t] = total_duration[t]
             /\ files' = files]_vars

\* C6 witness: collect has returned by the early stop, the last popped id is
\* back at the head of the queue.
C6_Witness ==
    \E t \in QueueTypes :
        /\ cpc[t] = "done"
        /\ total_duration[t] * 10 > TargetChunkDuration * 9
        /\ total_duration[t] < TargetChunkDuration
        /\ popped[t] # <<>>
        /\ queue[t] = qsnap[t]
        /\ Head(queue[t]) = popped[t][Len(popped[t])]

Ids(tracks) == [k \in 1..Len(tracks) |-> tracks[k].id]

\* C7: once the accumulated duration has reached the target, collect touches
\* the queue no more; when it returns with exactly the target, the last id it
\* popped is the last track it collected, nothing was requeued (the queue is
\* what the last pop left), and if no item was skipped the tracks returned
\* are the popped ids in queue order.
C7_NoPopAtTarget ==
    /\ [][\A t \in QueueTypes :
             total_duration[t] >= TargetChunkDuration
                 => (queue'[t] = queue[t] /\ popped'[t] = popped[t])]_vars
    /\ [](\A t \in QueueTypes :
             (cpc[t] = "done" /\ total_duration[t] = TargetChunkDuration)
             => /\ collected_tracks[t] # <<>>
                /\ popped[t][Len(popped[t])] =
                       collected_tracks[t][Len(collected_tracks[t])].id
                /\ queue[t] = Tail(qsnap[t])
                /\ (Len(collected_tracks[t]) = Len(popped[t])
                        => Ids(collected_tracks[t]) = popped[t]))

\* C7 witness: three items of 1200 s were popped from <<1, 2, 3>> and are
\* returned in that order, the queue is left empty.
C7_Witness ==
    \E t \in QueueTypes :
        /\ cpc[t] = "done"
        /\ collected_tracks[t] = <<[id |-> 1, duration |-> 1200],
                                   [id |-> 2, duration |-> 1200],
                                   [id |-> 3, duration |-> 1200]>>
        /\ total_duration[t] = TargetChunkDuration
        /\ popped[t] = <<1, 2, 3>>
        /\ queue[t] = <<>>

\* C8: an upgrade task that reads a count of LufsCap or more final mixes in
\* flight skips the final tier: it goes straight to the cleanup, the skip is
\* logged as a warning and not in error_log, the gate is not taken and no
\* quality changes; below LufsCap it goes on to the gate.  A skipped chunk
\* never has a final file or the final quality, and its beds and tracks are
\* gone when its task is done.
C8_CapacitySkip ==
    /\ [][\A x \in Tasks :
             (up[x[1]][x[2]] = "check_lufs" /\ up'[x[1]][x[2]] # "check_lufs")
             => IF Cardinality(lufs_in_progress[x[1]]) >= LufsCap
                THEN /\ up'[x[1]][x[2]] = "cleanup"
                     /\ x \in warnings'
                     /\ error_log' = error_log
                     /\ LUFS_LOCK' = LUFS_LOCK
                     /\ current_chunk_quality' = current_chunk_quality
                     /\ preloaded_chunks' = preloaded_chunks
                ELSE /\ up'[x[1]][x[2]] = "wait_gate"
                     /\ warnings' = warnings]_vars
    /\ [](\A x \in warnings :
             /\ up[x[1]][x[2]] \in {"cleanup", "done"}
             /\ FinalPath(x[1], x[2]) \notin files
             /\ ObservedQuality(x[1], x[2]) # "final"
             /\ LUFS_LOCK # x
             /\ up[x[1]][x[2]] = "done" =>
                    (Beds(x[1], x[2]) \cup Tracks(x[1], x[2])) \cap files = {})

\* C8 witness: a chunk whose final tier was skipped is done, observed at quick.
C8_Witness ==
    \E x \in warnings :
        /\ up[x[1]][x[2]] = "done"
        /\ ObservedQuality(x[1], x[2]) = "quick"
        /\ Cardinality(lufs_in_progress[x[1]]) >= LufsCap

\* C9: /next with an empty lookahead buffer leaves the current chunk as it
\* was: path, the file it names, quality and chunk index.
C9_AdvanceEmptyUnchanged ==
    [][(NextChunk(Active) /\ preloaded_chunks[Active] = <<>>)
          => /\ current_chunk_path' = current_chunk_path
             /\ current_chunk_quality' = current_chunk_quality
             /\ chunk_index' = chunk_index
             /\ (current_chunk_path[Active] \in files
                    => current_chunk_path[Active] \in files')]_vars

C11_DeleteRemovesSession ==
    [][\A sid \in SessionIds :
          DeleteSession(sid)
          => /\ sid \notin chunk_dir'
             /\ sid \notin audio_dir'
             /\ ~IsActive(sid)'
             /\ StatusById(sid)' = 404
             /\ sid \notin session_metadata'
             /\ IsActive(sid) => ~running'[active_session[2]]]_vars

\* C11 witness: the session that was active, with both directories, has been
\* deleted: no active pair is left, its worker is stopped, its storage is gone.
C11_Witness ==
    /\ created = 1
    /\ active_session = None
    /\ ~running[1]
    /\ chunk_dir = {}
    /\ audio_dir = {}
    /\ \A sid \in SessionIds : StatusById(sid) = 404

\* C20: the registry holds no or one active pair, and at most one of the
\* workers it ever created has running = True: the worker of the active pair.
C20_OneRunningWorker ==
    /\ active_session = None
       \/ active_session \in SessionIds \X (1..created)
    /\ Cardinality({k \in WorkerIds : running[k]}) <= 1
    /\ \A k \in WorkerIds :
          running[k] => (active_session # None /\ active_session[2] = k)

\* C20 witness: a second worker was created by a switch; it runs, the first
\* one is stopped.
C20_Witness ==
    /\ created >= 2
    /\ ~running[1]
    /\ \E k \in 2..created : running[k] /\ active_session[2] = k

\* C12: the lookahead buffer of a worker never holds more than 2 chunks, and
\* while the background loop is preparing or about to append a chunk there
\* is room for it.
C12_BufferDepth ==
    \A w \in Workers :
        /\ Len(preloaded_chunks[w]) <= LookaheadDepth
        /\ bg[w] \in {"prepare", "append", "join"}
               => Len(preloaded_chunks[w]) < LookaheadDepth

\* C12 witness: the buffer is full, the loop is at its check and a further
\* chunk index is still to be prepared.
C12_Witness ==
    /\ Len(preloaded_chunks[Active]) = LookaheadDepth
    /\ bg[Active] = "top"
    /\ chunk_index[Active] + Len(preloaded_chunks[Active]) + 1 <= MaxChunk

\* The chunk index a path belongs to (0 for no path).
IndexOfPath(p) == IF p = None THEN 0 ELSE p[3]

\* C13: the buffer holds the indices chunk_index + 1, chunk_index + 2, ... in
\* that order, the current chunk is the chunk of index chunk_index, and the
\* index computed at the top of a background cycle is, at the append, still
\* chunk_index + buffer length + 1; so indices are appended and promoted in
\* increasing order, none twice and none skipped.  As steps: an append adds
\* the index after the last one produced, a promotion makes the next index
\* current.
C13_IndicesInOrder ==
    /\ [](\A w \in Workers :
             /\ \A k \in 1..Len(preloaded_chunks[w]) :
                   /\ preloaded_chunks[w][k].index = chunk_index[w] + k
                   /\ IndexOfPath(preloaded_chunks[w][k].path) = chunk_index[w] + k
             /\ IndexOfPath(current_chunk_path[w]) = chunk_index[w]
             /\ bg[w] \in {"prepare", "append", "join"} =>
                   next_idx[w] = chunk_index[w] + Len(preloaded_chunks[w]) + 1)
    /\ [][\A w \in Workers :
             /\ Len(preloaded_chunks'[w]) > Len(preloaded_chunks[w]) =>
                   preloaded_chunks'[w][Len(preloaded_chunks'[w])].index =
                       chunk_index[w] + Len(preloaded_chunks[w]) + 1
             /\ chunk_index'[w] # chunk_index[w] =>
                   /\ chunk_index'[w] = chunk_index[w] + 1
                   /\ IndexOfPath(current_chunk_path'[w]) = chunk_index[w] + 1]_vars

\* C13 witness: chunk 1 was promoted and chunks 2 and 3 were appended after
\* it, in that order.
C13_Witness ==
    /\ chunk_index[Active] = 1
    /\ IndexOfPath(current_chunk_path[Active]) = 1
    /\ Len(preloaded_chunks[Active]) = 2
    /\ preloaded_chunks[Active][1].index = 2
    /\ preloaded_chunks[Active][2].index = 3

\* The error log of worker w holds the entry m.
Logged(w, m) == \E k \in 1..Len(error_log[w]) : error_log[w][k] = m
QuickFailed(w, i) == Logged(w, <<"quick", i>>)
FinalFailed(w, i) == Logged(w, <<"final", i>>) \/ Logged(w, <<"final_exc", i>>)
\* All mixed files, of any tier and chunk, that are on disk.
TierFiles(fs) == {f \in fs : f[2] \in {"immediate", "quick", "final"}}

\* C14: a failed quick or final mix lowers and invalidates nothing.  The step
\* in which the failure is logged sends the task to its cleanup and changes
\* no descriptor and no file, and the cleanup that follows removes no mixed
\* file and changes no descriptor.  After a failed quick mix the chunk is
\* never seen above immediate, has no quick or final file, and its buffer
\* entry names the immediate file, which exists; after a failed final mix the
\* chunk is never seen at final and a buffer entry that names its quick file
\* names an existing file.
C14_FailureKeepsTier ==
    /\ [][\A x \in Tasks :
             /\ (up[x[1]][x[2]] \in {"quick", "final_run"}
                 /\ error_log'[x[1]] # error_log[x[1]]
                 /\ up'[x[1]][x[2]] # up[x[1]][x[2]])
                => /\ up'[x[1]][x[2]] = "cleanup"
                   /\ files' = files
                   /\ preloaded_chunks' = preloaded_chunks
                   /\ current_chunk_path' = current_chunk_path
                   /\ current_chunk_quality' = current_chunk_quality
             /\ (up[x[1]][x[2]] = "cleanup" /\ up'[x[1]][x[2]] # "cleanup")
                => /\ TierFiles(files') = TierFiles(files)
                   /\ preloaded_chunks' = preloaded_chunks
                   /\ current_chunk_path' = current_chunk_path
                   /\ current_chunk_quality' = current_chunk_quality]_vars
    /\ [](\A x \in Tasks :
             /\ QuickFailed(x[1], x[2]) =>
                   /\ ObservedQuality(x[1], x[2]) \in {"none", "immediate"}
                   /\ QuickPath(x[1], x[2]) \notin files
                   /\ FinalPath(x[1], x[2]) \notin files
                   /\ up[x[1]][x[2]] \in {"cleanup", "done"}
                   /\ \A k \in 1..Len(preloaded_chunks[x[1]]) :
                         preloaded_chunks[x[1]][k].index = x[2] =>
                            /\ preloaded_chunks[x[1]][k].path =
                                   ImmediatePath(x[1], x[2])
                            /\ ImmediatePath(x[1], x[2]) \in files
             /\ FinalFailed(x[1], x[2]) =>
                   /\ ObservedQuality(x[1], x[2]) # "final"
                   /\ FinalPath(x[1], x[2]) \notin files
                   /\ up[x[1]][x[2]] \in {"cleanup", "done"}
                   /\ \A k \in 1..Len(preloaded_chunks[x[1]]) :
                         preloaded_chunks[x[1]][k].path = QuickPath(x[1], x[2])
                            => QuickPath(x[1], x[2]) \in files)

\* C14 witness: the final mix of a chunk failed, its task is done, and the
\* chunk is still served at quick from its quick file.
C14_Witness ==
    \E i \in Chunks :
        /\ FinalFailed(Active, i)
        /\ up[Active][i] = "done"
        /\ ObservedQuality(Active, i) = "quick"
        /\ QuickPath(Active, i) \in files

\* C15: every upgrade task that is started eventually ends with the two beds
\* and the track files of its chunk removed.
C15_EventuallyCleaned ==
    \A i \in Chunks :
        (up[Active][i] = "quick")
            ~> (/\ up[Active][i] = "done"
                /\ (Beds(Active, i) \cup Tracks(Active, i)) \cap files = {})

\* An attempt at index i has just failed: the loop is back at its check, the
\* index was tried and no upgrade task was started for it.
AttemptFailed(w, i) ==
    /\ bg[w] = "top"
    /\ next_idx[w] = i
    /\ up[w][i] = "none"

\* C16: after a failed preparation attempt none of the files the attempt
\* created is on disk: no track, no bed, no mixed file of that index.
C16_FailedAttemptLeavesNothing ==
    \A w \in Workers : \A i \in Chunks :
        AttemptFailed(w, i) =>
            (Tracks(w, i) \cup Beds(w, i) \cup TierPaths(w, i)) \cap files = {}

\* C17: no failure inside prepare_chunk stops the background loop: every
\* attempt gives control back to the loop, and after a failed attempt the
\* loop takes up the same index again.
C17_LoopSurvivesFailure ==
    \A i \in Chunks :
        /\ (bg[Active] = "prepare" /\ next_idx[Active] = i)
               ~> (bg[Active] \in {"top", "append"})
        /\ AttemptFailed(Active, i)
               ~> (bg[Active] = "prepare" /\ next_idx[Active] = i)

\* Task x waits for the final-mix gate (line 315).
RequestsGate(x) == up[x[1]][x[2]] = "wait_gate"
\* Task x holds the gate and its next step takes the session lock of its
\* worker (lines 318, 321, 398-413).
HoldsGateNeedsLock(x) ==
    /\ LUFS_LOCK = x
    /\ up[x[1]][x[2]] \in {"lufs_add", "final_run"}

\* C18: a thread that requests the final-mix gate holds no session lock, and
\* there is no cycle of waiting between the gate and a session lock: the
\* session lock a gate holder needs is never held by a thread that waits for
\* the gate.
C18_GateBeforeSessionLock ==
    /\ \A x \in Tasks :
          RequestsGate(x) =>
              \A w \in Workers : lock[w] # UpgradeThread(x[2])
    /\ \A x \in Tasks, y \in Tasks :
          (HoldsGateNeedsLock(x) /\ RequestsGate(y))
              => lock[x[1]] # UpgradeThread(y[2])

\* C18 witness: a task holds the gate and is about to take its session lock
\* inside it, while a task of the same worker and a task of another worker
\* wait for the gate.
C18_Witness ==
    \E x \in Tasks, y \in Tasks, z \in Tasks :
        /\ LUFS_LOCK = x
        /\ up[x[1]][x[2]] = "lufs_add"
        /\ y[1] = x[1] /\ y[2] # x[2] /\ RequestsGate(y)
        /\ z[1] # x[1] /\ RequestsGate(z)

\* C19: a task that reaches the gate while it is held eventually acquires
\* it; it leaves the wait only by acquiring the gate (no failure, no timeout,
\* no skip); and the gate is held only by a task inside its final mix, so
\* that it is free again when the mix has ended with any outcome.
C19_GateEventuallyAcquired ==
    /\ \A i \in Chunks :
          (up[Active][i] = "wait_gate" /\ LUFS_LOCK # None)
              ~> (LUFS_LOCK = <<Active, i>>)
    /\ [][\A x \in Tasks :
             (RequestsGate(x) /\ up'[x[1]][x[2]] # "wait_gate")
                => (up'[x[1]][x[2]] = "lufs_add" /\ LUFS_LOCK' = x
                    /\ error_log' = error_log /\ warnings' = warnings)]_vars
    /\ [](\A x \in Tasks : LUFS_LOCK = x => InFinalMix(x[1], x[2]))

\* The fields of the workers and everything their threads own.
WorkerState == <<workerVars, files, LUFS_LOCK, bg, next_idx, up, warnings,
                 collectVars>>

\* C21: get_or_create_session for the pair whose session id is active returns
\* the active worker, creates and stops no worker, leaves the active pair
\* and both directories as they are, and changes no field, queue or file of
\* any worker; the session is still active after the call, so that a second
\* call does the same.
C21_ActiveSessionReused ==
    [][\A m \in MusicIds, sp \in SpeechIds :
          (GetOrCreateSession(m, sp) /\ IsActive(get_session_id(m, sp)))
          => /\ last_call'[2] = active_session[1]
             /\ last_call'[3] = active_session[2]
             /\ active_session' = active_session
             /\ created' = created
             /\ running' = running
             /\ chunk_dir' = chunk_dir
             /\ audio_dir' = audio_dir
             /\ WorkerState' = WorkerState
             /\ IsActive(get_session_id(m, sp))'
             /\ get_session_id(m, sp) \in session_metadata']_vars

\* C21 witness: the last call asked for the active session and got its
\* worker, which still runs.
C21_Witness ==
    /\ last_call # None
    /\ last_call[4] = "reused"
    /\ active_session = <<last_call[2], last_call[3]>>
    /\ last_call[5] = active_session
    /\ running[last_call[3]]

C23_SweepSparesActive ==
    [][PruneDelete
          => /\ ~IsActive(pruning)
             /\ active_session' = active_session
             /\ running' = running
             /\ \A sid \in SessionIds :
                   IsActive(sid) => /\ (sid \in chunk_dir => sid \in chunk_dir')
                                    /\ (sid \in audio_dir => sid \in audio_dir')]_vars

\* C24: once self.running is false, the loop condition evaluated at the top
\* of the loop starts no preparation but ends the loop, and it is
\* evaluated to that end whenever the loop is at its top; an ended loop
\* stays ended and appends nothing.  The step of stop() that clears the flag
\* changes nothing else: the preparation and the upgrade tasks in progress
\* keep their position, and a preparation that ends after it still has its
\* chunk appended.  The caller of stop() leaves join() whether or not the
\* loop has ended.
C24_StopEndsLoop ==
    /\ [][\A w \in Workers :
             /\ (bg[w] = "top" /\ ~Running(w)) => bg'[w] \in {"top", "exited"}
             /\ bg[w] = "exited" =>
                    /\ bg'[w] = "exited"
                    /\ Len(preloaded_chunks'[w]) <= Len(preloaded_chunks[w])
             /\ (bg[w] = "append" /\ bg'[w] # "append") =>
                    /\ bg'[w] = "top"
                    /\ Len(preloaded_chunks'[w]) = Len(preloaded_chunks[w]) + 1]_vars
    /\ [][Stop(Active)
             => /\ ~Running(Active)'
                /\ bg' = bg /\ up' = up /\ next_idx' = next_idx
                /\ files' = files /\ workerVars' = workerVars
                /\ LUFS_LOCK' = LUFS_LOCK]_vars
    /\ (~Running(Active) /\ bg[Active] = "top") ~> (bg[Active] = "exited")
    /\ (stopper = "joining") ~> (stopper = "returned")

\* C24 witness: stop() has returned; the preparation that was in progress
\* has ended since and its chunk waits to be appended, and the final mix of
\* an earlier chunk is still running.
C24_Witness ==
    /\ ~Running(Active)
    /\ stopper = "returned"
    /\ bg[Active] = "append"
    /\ \E i \in Chunks : up[Active][i] = "final_run"

\* C26: while the worker runs, a buffer of fewer than 2 chunks gets the
\* chunk of the next index appended and is brought back to 2 chunks (or to
\* the last chunk index of the model), unless the worker is stopped or the
\* preparation attempt never ends.
C26_BufferRefilled ==
    /\ \A i \in Chunks :
          (/\ Running(Active)
           /\ Len(preloaded_chunks[Active]) < LookaheadDepth
           /\ chunk_index[Active] + Len(preloaded_chunks[Active]) + 1 = i)
          ~> (\/ \E k \in 1..Len(preloaded_chunks[Active]) :
                    preloaded_chunks[Active][k].index = i
              \/ chunk_index[Active] >= i
              \/ ~Running(Active)
              \/ bg[Active] = "join")
    /\ (Running(Active) /\ Len(preloaded_chunks[Active]) < LookaheadDepth)
          ~> (\/ Len(preloaded_chunks[Active]) = LookaheadDepth
              \/ chunk_index[Active] + Len(preloaded_chunks[Active]) >= MaxChunk
              \/ ~Running(Active)
              \/ bg[Active] = "join")

\* C26 witness: after the first chunk was promoted out of the buffer, the
\* running loop has appended the chunk of index 3 at immediate quality and
\* the buffer is full again.
C26_Witness ==
    /\ Running(Active)
    /\ stopper = "idle"
    /\ chunk_index[Active] = 1
    /\ bg[Active] = "top"
    /\ Len(preloaded_chunks[Active]) = LookaheadDepth
    /\ preloaded_chunks[Active][LookaheadDepth] =
           ChunkInfo(ImmediatePath(Active, 3), "immediate", 3)

\* Worker w was torn down: its flag is cleared and it is not the worker of
\* the active pair.
TornDown(w) ==
    /\ ~Running(w)
    /\ active_session = None \/ active_session[2] # ObjectOf(w)

\* C25: no step of an upgrade task of a torn-down worker, its swaps and its
\* end included, changes the current chunk path or quality, the lookahead
\* buffer or the chunk index of the active worker.
C25_TornDownTasksIgnored ==
    [][\A w \in Workers, i \in Chunks :
          (TornDown(w) /\ Upgrade(w, i))
          => /\ current_chunk_path'[Active] = current_chunk_path[Active]
             /\ current_chunk_quality'[Active] = current_chunk_quality[Active]
             /\ preloaded_chunks'[Active] = preloaded_chunks[Active]
             /\ chunk_index'[Active] = chunk_index[Active]]_vars

\* C25 witness: the upgrade task of the torn-down worker has ended after
\* both of its swaps, while the active worker still serves its own chunk.
C25_Witness ==
    \E w \in Workers :
        /\ TornDown(w)
        /\ up[w][1] = "done"
        /\ current_chunk_path[w] = FinalPath(w, 1)
        /\ Running(Active)
        /\ current_chunk_path[Active] \in TierPaths(Active, chunk_index[Active])

\* The tier a path names: the kind of file it is, "none" for no path.
QualityOfPath(p) == IF p = None THEN "none" ELSE p[2]

\* C27: whenever the session lock of a worker is free, so that a reader can
\* take it, the current quality is the tier of the file the current path
\* names ("none" for no path), and every lookahead entry names a mixed file
\* of the entry's own index and quality in the worker's chunk directory.
C27_PathQualityAgree ==
    \A w \in Workers :
        lock[w] = NoThread =>
            /\ current_chunk_quality[w] = QualityOfPath(current_chunk_path[w])
            /\ current_chunk_path[w] # None =>
                   current_chunk_path[w] \in TierPaths(w, IndexOfPath(current_chunk_path[w]))
            /\ \A k \in 1..Len(preloaded_chunks[w]) :
                   LET c == preloaded_chunks[w][k] IN
                   /\ c.quality \in {"immediate", "quick", "final"}
                   /\ c.path = File(w, c.quality, c.index)

\* C27 witness: the current chunk was switched to its final file and the
\* head of the buffer to its quick file, each with its quality.
C27_Witness ==
    /\ lock[Active] = NoThread
    /\ current_chunk_path[Active] = FinalPath(Active, 1)
    /\ current_chunk_quality[Active] = "final"
    /\ Len(preloaded_chunks[Active]) >= 1
    /\ preloaded_chunks[Active][1] = ChunkInfo(QuickPath(Active, 2), "quick", 2)

\* C28: error_log never holds more than 10 entries; after n calls it holds
\* the entries of the last 10 calls (all of them up to 10) in the order of
\* the calls; and a call puts its entry last, before it the entries that
\* were there, less the oldest one when there were 10.
C28_ErrorLogLastTen ==
    /\ [](\A w \in Workers :
             LET log == error_log[w]
                 n == IF w = Active THEN LogCalls ELSE 0
             IN /\ Len(log) <= ErrorLogKeep
                /\ Len(log) = IF n <= ErrorLogKeep THEN n ELSE ErrorLogKeep
                /\ \A k \in 1..Len(log) : log[k][2] = n - Len(log) + k)
    /\ [][\A w \in Workers, message \in LogTexts :
             LogErrorCall(w, message)
             => LET old == error_log[w]
                    new == error_log'[w]
                IN /\ new[Len(new)][1] = message
                   /\ SubSeq(new, 1, Len(new) - 1) =
                          IF Len(old) < ErrorLogKeep THEN old ELSE Tail(old)]_vars

\* C28 witness: twelve errors were logged; the log holds the third to the
\* twelfth.
C28_Witness ==
    /\ Len(error_log[Active]) = ErrorLogKeep
    /\ error_log[Active][1][2] = 3
    /\ error_log[Active][ErrorLogKeep][2] = 12

\* C29: a refill calls get_video_ids exactly when the queue is shorter than
\* 10; a queue of 10 or more is left as it is; otherwise the queue after
\* the call is the queue before it followed by the ids returned, so the
\* queued items keep their places and an empty result changes nothing; the
\* other queue is not touched.
C29_RefillAppends ==
    [][\A t \in QueueTypes :
          EnsureQueueFilledCall(t)
          => LET old == queue[t]
                 new == queue'[t]
                 fetched == last_call'[3]
                 r == last_call'[4]
             IN /\ fetched <=> Len(old) < LowWater
                /\ ~fetched => new = old
                /\ Len(new) >= Len(old)
                /\ SubSeq(new, 1, Len(old)) = old
                /\ fetched => SubSeq(new, Len(old) + 1, Len(new)) = r
                /\ (fetched /\ r = <<>>) => new = old
                /\ \A u \in QueueTypes \ {t} : queue'[u] = queue[u]]_vars

\* C29 witness: a queue of 9 ids was refilled with two new ids behind them,
\* and the call after that, finding 11 ids, did not ask for more.
C29_Witness ==
    \E t \in QueueTypes :
        /\ last_call = <<"_ensure_queue_filled", t, FALSE, <<1, 2>>>>
        /\ qsnap[t] = queue[t]
        /\ queue[t] = [k \in 1..(LowWater - 1) |-> k] \o <<1, 2>>

\* C30: a thread that is about to take the session lock in _log_error does
\* not hold that lock already: neither in the queue-empty branch of collect,
\* nor after a playlist-resolution error caught during the refill, nor in
\* the handler of an exception raised by collect.
C30_NoSelfReacquire ==
    \A t \in QueueTypes :
        cpc[t] \in {"log_resolve", "log_empty", "log_raise"}
            => lock[Active] # t

\* C31: lufs_in_progress of a worker holds the indices whose final mix is
\* being transcoded and no others: an index is in the set from the step
\* after the gate was acquired until its final mix has ended, whatever the
\* outcome.
C31_InProgressIsExecuting ==
    \A w \in Workers :
        /\ {i \in Chunks : up[w][i] = "final_run"} \subseteq lufs_in_progress[w]
        /\ lufs_in_progress[w] \subseteq {i \in Chunks : InFinalMix(w, i)}

\* The files the current chunk and the lookahead buffer of worker w name.
Referenced(w) ==
    (IF current_chunk_path[w] = None THEN {} ELSE {current_chunk_path[w]})
    \cup {preloaded_chunks[w][k].path : k \in 1..Len(preloaded_chunks[w])}

\* No upgrade task of worker w is running.
NoUpgradeRunning(w) == \A i \in Chunks : up[w][i] \in {"none", "done"}

\* C32: while no upgrade task of a worker is running and no descriptor
\* returned by prepare_chunk waits to be appended, every mixed file of the
\* worker that is on disk is named by its current chunk or by an entry of
\* its lookahead buffer.
C32_NoOrphanMixes ==
    \A w \in Workers :
        (NoUpgradeRunning(w) /\ bg[w] # "append") =>
            {f \in TierFiles(files) : f[1] = w} \subseteq Referenced(w)

\* A collect call is over: it has returned its tracks or left by an exception.
CollectOver(t) == cpc[t] \in {"done", "failed"}

\* The collector is in a call of _log_error.
InLogError(t) == cpc[t] \in {"log_resolve", "log_empty", "log_raise"}

\* C33: a collect call whose fetches, probes and refills all return comes to
\* an end (or to a call of _log_error), also when every item it pops fails to
\* download or is too short and the source returns ids on each refill.
C33_CollectTerminates ==
    <>(CollectOver(Collector) \/ InLogError(Collector))

\* prepare_chunk returned None for chunk i of worker w: the failure it logged.
PrepareFailed(w, i) ==
    \/ Logged(w, <<"collect", i>>)
    \/ Logged(w, <<"concat", i>>)
    \/ Logged(w, <<"immediate", i>>)

\* C34: a preparation attempt that fails (the loop goes from prepare_chunk
\* straight back to its top) starts no upgrade task and leaves the buffer,
\* the current chunk, its quality and the chunk index as they were; the loop
\* appends only the descriptor of the requested index, with the immediate
\* file and the quality immediate.
C34_FailedPrepareChangesNothing ==
    [][\A w \in Workers :
          /\ (bg[w] = "prepare" /\ bg'[w] = "top")
                => /\ up'[w] = up[w]
                   /\ preloaded_chunks'[w] = preloaded_chunks[w]
                   /\ current_chunk_path'[w] = current_chunk_path[w]
                   /\ current_chunk_quality'[w] = current_chunk_quality[w]
                   /\ chunk_index'[w] = chunk_index[w]
          /\ (bg[w] = "append" /\ bg'[w] # "append")
                => preloaded_chunks'[w] =
                       Append(preloaded_chunks[w],
                              ChunkInfo(ImmediatePath(w, next_idx[w]),
                                        "immediate", next_idx[w]))]_vars

\* C34 witness: chunk 2 failed to prepare after chunk 1 had been appended:
\* no task for chunk 2, the buffer still holds chunk 1 only.
C34_Witness ==
    /\ bg[Active] = "top"
    /\ next_idx[Active] = 2
    /\ PrepareFailed(Active, 2)
    /\ up[Active][2] = "none"
    /\ Len(preloaded_chunks[Active]) = 1
    /\ preloaded_chunks[Active][1].index = 1

\* a is b with some of its elements left out, the order kept.
RECURSIVE IsSubSeq(_, _)
IsSubSeq(a, b) ==
    IF a = <<>> THEN TRUE
    ELSE IF b = <<>> THEN FALSE
    ELSE IF Head(a) = Head(b) THEN IsSubSeq(Tail(a), Tail(b))
    ELSE IsSubSeq(a, Tail(b))

\* The sum of the durations of the collected tracks.
RECURSIVE SumDurations(_)
SumDurations(tracks) ==
    IF tracks = <<>> THEN 0
    ELSE tracks[1].duration + SumDurations(Tail(tracks))

\* C36: one pass through the fetch and probe of collect either skips the
\* popped item (nothing collected, nothing added to the duration) or takes it
\* with a duration above 5 seconds; either way the loop goes on.  The tracks
\* collected are the accepted items in the order they were popped, each
\* longer than 5 seconds, and the duration is their sum.
C36_SkipsUnusableItems ==
    /\ [][\A t \in QueueTypes :
             (cpc[t] = "check90" /\ cpc'[t] = "loop")
             => \/ /\ collected_tracks'[t] = collected_tracks[t]
                   /\ total_duration'[t] = total_duration[t]
                \/ \E d \in Durations :
                      /\ d > 5
                      /\ collected_tracks'[t] = Append(collected_tracks[t],
                             [id |-> video_id[t], duration |-> d])
                      /\ total_duration'[t] = total_duration[t] + d]_vars
    /\ [](\A t \in QueueTypes :
             /\ \A k \in 1..Len(collected_tracks[t]) :
                    collected_tracks[t][k].duration > 5
             /\ total_duration[t] = SumDurations(collected_tracks[t])
             /\ IsSubSeq(Ids(collected_tracks[t]), popped[t]))

\* C36 witness: the first item popped was skipped, the second one taken, and
\* the loop goes on to the next item.
C36_Witness ==
    \E t \in QueueTypes :
        /\ cpc[t] = "loop"
        /\ popped[t] = <<1, 2>>
        /\ Ids(collected_tracks[t]) = <<2>>
        /\ total_duration[t] = collected_tracks[t][1].duration
        /\ AudioPath(t, 1) \in files

\* The step is one of a thread of worker w: its loop or an upgrade task.
ThreadStep(w) == bg'[w] # bg[w] \/ up'[w] # up[w]

\* The mixed files a step of a thread of worker w writes: the immediate mix
\* of prepare_chunk (line 224), the quick and the final mix of the upgrade
\* task.
Written(w) ==
    (IF bg[w] = "prepare" /\ bg'[w] = "append"
     THEN {ImmediatePath(w, next_idx[w])} ELSE {})
    \cup {QuickPath(w, i) : i \in {j \in Chunks :
              up[w][j] = "quick" /\ up'[w][j] = "swap_quick"}}
    \cup {FinalPath(w, i) : i \in {j \in Chunks :
              up[w][j] = "final_run" /\ up'[w][j] = "swap_final"}}

\* C35: no step of a thread of a torn-down worker writes or removes a file
\* that the current chunk or the buffer of the active worker names, also
\* when both workers were made for the same session id.
C35_TornDownSparesActiveFiles ==
    [][\A w \in Workers \ {Active} :
          ThreadStep(w) =>
              \A f \in Referenced(Active) :
                  /\ (f \in files') = (f \in files)
                  /\ f \notin Written(w)]_vars

\* The indices of the chunks worker w holds: the current one and the buffer.
HeldIndices(w) ==
    (IF current_chunk_path[w] = None THEN {}
     ELSE {IndexOfPath(current_chunk_path[w])})
    \cup {preloaded_chunks[w][k].index : k \in 1..Len(preloaded_chunks[w])}

\* C37: in the older worker, the index the loop is about to prepare is not
\* the index of the current chunk or of a buffered chunk.
C37_LegacyIndexOnce ==
    \A w \in Workers : bg[w] = "prepare" => next_idx[w] \notin HeldIndices(w)

\* Caller c was returned a port by get_available_port or by
\* find_free_port(reserve=True) and has not released it.
Holds(c) == finder[c].pc = "returned" /\ finder[c].reserve

\* C38: two callers that were returned a port with a reservation and have
\* not released it hold different ports, and a port so returned is in the
\* reserved set.
C38_PortReservedOnce ==
    /\ \A c \in Callers : \A d \in Callers \ {c} :
           (Holds(c) /\ Holds(d)) => finder[c].port # finder[d].port
    /\ \A c \in Callers : Holds(c) => finder[c].port \in _reserved_ports

\* C38 witness: both callers hold a port, one the first port of the range
\* and the other, which found it reserved, the next one.
C38_Witness ==
    /\ Holds("c1") /\ finder["c1"].port = StartPort
    /\ Holds("c2") /\ finder["c2"].port = StartPort + 1
    /\ _reserved_ports = {StartPort, StartPort + 1}
====
